---- MODULE Spec2Model ----
(***************************************************************************)
(* The seating store of Smart-Event (src/src/types/index.ts): the layout   *)
(* of tables, guests and unassigned guest ids, and the store's mutation    *)
(* operations.  Every operation of the store is a function from the        *)
(* current state to the next one (zustand's set(state => ...)), and is     *)
(* modelled as an operator on a state record; the actions apply it.        *)
(***************************************************************************)
EXTENDS Integers, Sequences, FiniteSets, TLC

VARIABLES tables, guests, unassignedGuests, uuid, file, toast,
          draggedGuest, dataTransfer, theaterViews

vars == <<tables, guests, unassignedGuests, uuid, file, toast,
          draggedGuest, dataTransfer, theaterViews>>

(***************************************************************************)
(* Bounds of the model.  uuid counts the values drawn from uuidv4 so far:  *)
(* guest ids, table ids, and batches of seat ids (one batch per call that  *)
(* creates seats).                                                         *)
(***************************************************************************)
\* guests ever created
MaxGuests == 2
\* tables ever created, in the layout scope
MaxTables == 2
\* tables ever created, in the configuration scope
MaxConfigTables == 1
\* seat regenerations that draw new seat ids, in the configuration scope
MaxRegens == 1
\* guests and tables ever created, in the snapshot scope
MaxSnapshotGuests == 1
MaxSnapshotTables == 1
\* tables ever created, in the drag scope
MaxDragTables == 1

(***************************************************************************)
(* Values.  An optional field (rows?: number) is <<>> when undefined and   *)
(* <<v>> when it holds v.  Ids are what uuidv4 returns: a value never      *)
(* returned before; number 0 of each kind is never issued and serves as    *)
(* the id of something that does not exist.                                *)
(***************************************************************************)
Undefined == <<>>

Some(v) == <<v>>

Null == <<>>

GuestId(n) == <<"guest", n>>

TableId(n) == <<"table", n>>

SeatId(batch, i) == <<"seat", batch, i>>

TableTypes == {"round", "square", "rectangle", "theater", "amphitheater"}

(***************************************************************************)
(* Array helpers.  s.map(f) is written [i \in 1..Len(s) |-> f(s[i])] and   *)
(* s.filter(p) is SelectSeq(s, LAMBDA e : p(e)) where they are used.       *)
(***************************************************************************)
Range(s) == {s[i] : i \in 1..Len(s)}

Min(a, b) == IF a < b THEN a ELSE b

\* state.tables.flatMap((t) => t.seats)
RECURSIVE FlatMapSeats(_)
FlatMapSeats(ts) ==
    IF ts = <<>> THEN <<>> ELSE Head(ts).seats \o FlatMapSeats(Tail(ts))

\* rowConfigs.reduce((sum, r) => sum + r.seatCount, 0)
RECURSIVE SumSeatCount(_)
SumSeatCount(rc) ==
    IF rc = <<>> THEN 0 ELSE Head(rc).seatCount + SumSeatCount(Tail(rc))

\* a || d for an optional number: d when a is undefined or 0
OrElse(a, d) == IF a = Undefined \/ a[1] = 0 THEN d ELSE a[1]

\* a ?? b for optionals
Coalesce(a, b) == IF a = Undefined THEN b ELSE a

\* Strings are sequences of characters, so that trim, split and the
\* template literals are computed character by character.
Whitespace == {" ", "\t"}

EmptyString == <<>>

RECURSIVE TrimStart(_)
TrimStart(s) ==
    IF s # <<>> /\ Head(s) \in Whitespace THEN TrimStart(Tail(s)) ELSE s

RECURSIVE TrimEnd(_)
TrimEnd(s) ==
    IF s # <<>> /\ s[Len(s)] \in Whitespace
    THEN TrimEnd(SubSeq(s, 1, Len(s) - 1)) ELSE s

\* s.trim()
Trim(s) == TrimEnd(TrimStart(s))

\* s.split(/\s+/).filter(p => p.length > 0)
RECURSIVE Tokens(_)
Tokens(s) ==
    IF s = <<>> THEN <<>>
    ELSE IF Head(s) \in Whitespace THEN Tokens(Tail(s))
    ELSE LET stops == {k \in 1..Len(s) : s[k] \in Whitespace}
             n == IF stops = {} THEN Len(s)
                  ELSE (CHOOSE k \in stops : \A m \in stops : k <= m) - 1
         IN  <<SubSeq(s, 1, n)>> \o Tokens(SubSeq(s, n + 1, Len(s)))

\* parts.join(' ')
RECURSIVE JoinBySpace(_)
JoinBySpace(parts) ==
    IF parts = <<>> THEN <<>>
    ELSE IF Len(parts) = 1 THEN parts[1]
    ELSE parts[1] \o <<" ">> \o JoinBySpace(Tail(parts))

\* state.tables.find((t) => t.id === tableId), as an optional
FindTable(ts, tableId) ==
    LET hits == SelectSeq(ts, LAMBDA t : t.id = tableId)
    IN  IF hits = <<>> THEN Undefined ELSE Some(hits[1])

\* table.seats.find((s) => s.id === seatId), as an optional
FindSeat(seats, seatId) ==
    LET hits == SelectSeq(seats, LAMBDA s : s.id = seatId)
    IN  IF hits = <<>> THEN Undefined ELSE Some(hits[1])

\* seats.filter((s) => s.guestId).map((s) => s.guestId!)
AssignedGuestIds(seats) ==
    LET occ == SelectSeq(seats, LAMBDA s : s.guestId # Null)
    IN  [i \in 1..Len(occ) |-> occ[i].guestId]

(***************************************************************************)
(* createSeats and getDefaultTableSize.  batch is the batch of uuidv4      *)
(* values the new seats take their ids from.                               *)
(***************************************************************************)
DefaultRows == 5

DefaultSeatsPerRow == 8

\* a variant of createSeats that numbers the positions from 1
createSeatsOneBased(type, seatsCount, rows, seatsPerRow, batch) ==
    LET actualRows == OrElse(rows, DefaultRows)
        actualSeatsPerRow == OrElse(seatsPerRow, DefaultSeatsPerRow)
        totalSeats == IF type \in {"theater", "amphitheater"}
                      THEN actualRows * actualSeatsPerRow
                      ELSE seatsCount
    IN  [i \in 1..totalSeats |->
            [id |-> SeatId(batch, i - 1), guestId |-> Null, position |-> i]]

createSeats(type, seatsCount, rows, seatsPerRow, batch) ==
    LET actualRows == OrElse(rows, DefaultRows)
        actualSeatsPerRow == OrElse(seatsPerRow, DefaultSeatsPerRow)
        totalSeats == IF type \in {"theater", "amphitheater"}
                      THEN actualRows * actualSeatsPerRow
                      ELSE seatsCount
    IN  [i \in 1..totalSeats |->
            [id |-> SeatId(batch, i - 1), guestId |-> Null, position |-> i - 1]]

\* a variant of getDefaultTableSize that gives every type the default case
getDefaultTableSizeOfDefault(type) == [width |-> 160, height |-> 160, seats |-> 8]

getDefaultTableSize(type) ==
    CASE type = "round"        -> [width |-> 160, height |-> 160, seats |-> 8]
      [] type = "square"       -> [width |-> 140, height |-> 140, seats |-> 8]
      [] type = "rectangle"    -> [width |-> 200, height |-> 120, seats |-> 10]
      [] type = "theater"      -> [width |-> 400, height |-> 300, seats |-> 40]
      [] type = "amphitheater" -> [width |-> 400, height |-> 300, seats |-> 40]
      [] OTHER                 -> [width |-> 160, height |-> 160, seats |-> 8]

(***************************************************************************)
(* The store's operations, each a function of the state                    *)
(* st = [tables, guests, unassignedGuests] and the call's arguments.       *)
(***************************************************************************)
\* a variant of parseGuestName that reads every name as first name, then
\* last name
parseGuestNameFirstLast(fullName) ==
    LET parts == Tokens(Trim(fullName))
    IN  IF Len(parts) = 0
        THEN [firstName |-> EmptyString, lastName |-> EmptyString,
              middleName |-> Undefined]
        ELSE IF Len(parts) = 1
        THEN [firstName |-> parts[1], lastName |-> EmptyString,
              middleName |-> Undefined]
        ELSE [firstName |-> parts[1], lastName |-> parts[2],
              middleName |-> IF Len(parts) = 2 THEN Undefined
                             ELSE Some(JoinBySpace(SubSeq(parts, 3, Len(parts))))]

parseGuestName(fullName) ==
    LET parts == Tokens(Trim(fullName))
    IN  IF Len(parts) = 0
        THEN [firstName |-> EmptyString, lastName |-> EmptyString,
              middleName |-> Undefined]
        ELSE IF Len(parts) = 1
        THEN [firstName |-> parts[1], lastName |-> EmptyString,
              middleName |-> Undefined]
        ELSE IF Len(parts) = 2
        THEN [lastName |-> parts[1], firstName |-> parts[2],
              middleName |-> Undefined]
        ELSE [lastName |-> parts[1], firstName |-> parts[2],
              middleName |-> Some(JoinBySpace(SubSeq(parts, 3, Len(parts))))]

\* middleName is an optional string
addGuest(st, firstName, lastName, middleName, id) ==
    LET middle == IF middleName = Undefined THEN EmptyString
                  ELSE Trim(middleName[1])
        formattedFullName ==
            IF middle # EmptyString
            THEN Trim(lastName) \o <<" ">> \o Trim(firstName) \o <<" ">> \o middle
            ELSE Trim(Trim(lastName) \o <<" ">> \o Trim(firstName))
        guest == [id |-> id,
                  firstName |-> Trim(firstName),
                  lastName |-> Trim(lastName),
                  middleName |-> IF middle # EmptyString THEN Some(middle)
                                 ELSE Undefined,
                  fullName |-> formattedFullName]
    IN  [st EXCEPT !.guests = Append(@, guest),
                   !.unassignedGuests = Append(@, id)]

\* a variant of the form that asks for a first name only
handleAddGuestByFirstName(st, newGuestFirstName, newGuestLastName, newGuestMiddleName, id) ==
    IF Trim(newGuestFirstName) # EmptyString
    THEN addGuest(st, Trim(newGuestFirstName), Trim(newGuestLastName),
                  IF Trim(newGuestMiddleName) # EmptyString
                  THEN Some(Trim(newGuestMiddleName)) ELSE Undefined,
                  id)
    ELSE st

\* the form of the guest list panel: the request is passed on to addGuest
\* only with a first name and a last name
handleAddGuest(st, newGuestFirstName, newGuestLastName, newGuestMiddleName, id) ==
    IF Trim(newGuestFirstName) # EmptyString /\ Trim(newGuestLastName) # EmptyString
    THEN addGuest(st, Trim(newGuestFirstName), Trim(newGuestLastName),
                  IF Trim(newGuestMiddleName) # EmptyString
                  THEN Some(Trim(newGuestMiddleName)) ELSE Undefined,
                  id)
    ELSE st

\* a variant of removeGuest that leaves the seats as they are
removeGuestKeepingSeat(st, guestId) ==
    [st EXCEPT
        !.guests = SelectSeq(@, LAMBDA g : g.id # guestId),
        !.unassignedGuests = SelectSeq(@, LAMBDA id : id # guestId)]

removeGuest(st, guestId) ==
    [tables |-> [i \in 1..Len(st.tables) |->
                    [st.tables[i] EXCEPT !.seats =
                        [j \in 1..Len(@) |->
                            IF @[j].guestId = guestId
                            THEN [@[j] EXCEPT !.guestId = Null]
                            ELSE @[j]]]],
     guests |-> SelectSeq(st.guests, LAMBDA g : g.id # guestId),
     unassignedGuests |-> SelectSeq(st.unassignedGuests, LAMBDA id : id # guestId)]

\* names: the raw name strings, each a sequence of characters; ids: the
\* uuidv4 values the guests created for the non-blank names take, in order
IsBlank(name) == Trim(name) = EmptyString

importGuests(st, names, ids) ==
    LET kept == SelectSeq(names, LAMBDA n : ~IsBlank(n))
        newIds == [i \in 1..Len(kept) |-> ids[i]]
        newGuests ==
            [i \in 1..Len(kept) |->
                LET parsed == parseGuestName(Trim(kept[i]))
                    formattedFullName ==
                        IF parsed.middleName # Undefined
                        THEN parsed.lastName \o <<" ">> \o parsed.firstName
                                \o <<" ">> \o parsed.middleName[1]
                        ELSE Trim(parsed.lastName \o <<" ">> \o parsed.firstName)
                IN  [id |-> newIds[i],
                     firstName |-> parsed.firstName,
                     lastName |-> parsed.lastName,
                     middleName |-> parsed.middleName,
                     fullName |-> formattedFullName]]
    IN  [st EXCEPT !.guests = @ \o newGuests,
                   !.unassignedGuests = @ \o newIds]

addTable(st, type, name, x, y, id, batch) ==
    LET d == getDefaultTableSize(type)
        isTheaterStyle == type \in {"theater", "amphitheater"}
        isAmphitheater == type = "amphitheater"
        newTable ==
            [id |-> id, type |-> type, name |-> name, x |-> x, y |-> y,
             rotation |-> 0, width |-> d.width, height |-> d.height,
             rows |-> IF isTheaterStyle THEN Some(DefaultRows) ELSE Undefined,
             seatsPerRow |-> IF isTheaterStyle THEN Some(DefaultSeatsPerRow)
                             ELSE Undefined,
             rowConfigs |-> IF isAmphitheater
                            THEN Some([r \in 1..DefaultRows |->
                                          [seatCount |-> DefaultSeatsPerRow]])
                            ELSE Undefined,
             seats |-> createSeats(type, d.seats, Some(DefaultRows),
                                   Some(DefaultSeatsPerRow), batch)]
    IN  [st EXCEPT !.tables = Append(@, newTable)]

\* a variant of removeTable that only deletes the table
removeTableDroppingGuests(st, tableId) ==
    [st EXCEPT !.tables = SelectSeq(@, LAMBDA t : t.id # tableId)]

removeTable(st, tableId) ==
    LET table == FindTable(st.tables, tableId)
        assignedGuestIds == IF table = Undefined THEN <<>>
                            ELSE AssignedGuestIds(table[1].seats)
    IN  [st EXCEPT !.tables = SelectSeq(@, LAMBDA t : t.id # tableId),
                   !.unassignedGuests = @ \o assignedGuestIds]

\* a variant of updateTablePosition that moves every table
updateTablePositionOfAll(st, tableId, x, y) ==
    [st EXCEPT !.tables = [i \in 1..Len(@) |-> [@[i] EXCEPT !.x = x, !.y = y]]]

updateTablePosition(st, tableId, x, y) ==
    [st EXCEPT !.tables = [i \in 1..Len(@) |->
        IF @[i].id = tableId THEN [@[i] EXCEPT !.x = x, !.y = y] ELSE @[i]]]

updateTableRotation(st, tableId, rotation) ==
    [st EXCEPT !.tables = [i \in 1..Len(@) |->
        IF @[i].id = tableId THEN [@[i] EXCEPT !.rotation = rotation] ELSE @[i]]]

\* A TableConfigUpdate with no field given, and the fields that make
\* updateTableConfig recreate the seats
NoConfig ==
    [name |-> Undefined, x |-> Undefined, y |-> Undefined,
     rotation |-> Undefined, width |-> Undefined, height |-> Undefined,
     rows |-> Undefined, seatsPerRow |-> Undefined, seats |-> Undefined,
     rowConfigs |-> Undefined]

\* a variant of the condition under which the seats are recreated, that
\* also recreates them when the table is resized
RecreatesSeatsOnResize(config) ==
    \/ config.seats # Undefined
    \/ config.rows # Undefined
    \/ config.seatsPerRow # Undefined
    \/ config.rowConfigs # Undefined
    \/ config.width # Undefined
    \/ config.height # Undefined

\* if (config.seats !== undefined || config.rows !== undefined ||
\*     config.seatsPerRow !== undefined || config.rowConfigs !== undefined)

RecreatesSeats(config) ==
    \/ config.seats # Undefined
    \/ config.rows # Undefined
    \/ config.seatsPerRow # Undefined
    \/ config.rowConfigs # Undefined

\* the branch  if (config.rowConfigs) { ... }  of updateTableConfig
SeatsFromRowConfigs(table, config, batch) ==
    LET seatsCount == IF config.seats # Undefined THEN config.seats[1]
                      ELSE SumSeatCount(config.rowConfigs[1])
        existingSeats == table.seats
    IN  [i \in 1..seatsCount |->
            [id |-> IF i <= Len(existingSeats) THEN existingSeats[i].id
                    ELSE SeatId(batch, i - 1),
             guestId |-> IF i <= Len(existingSeats) THEN existingSeats[i].guestId
                         ELSE Null,
             position |-> i - 1]]

\* a variant of the else branch that stops after createSeats and copies no
\* guest
SeatsFromCountsUncopied(table, config, batch) ==
    LET seatsCount == IF config.seats # Undefined THEN config.seats[1]
                      ELSE Len(table.seats)
        rows == Coalesce(config.rows, table.rows)
        seatsPerRow == Coalesce(config.seatsPerRow, table.seatsPerRow)
    IN  createSeats(table.type, seatsCount, rows, seatsPerRow, batch)

\* the else branch: createSeats, then the guests copied by index
SeatsFromCounts(table, config, batch) ==
    LET seatsCount == IF config.seats # Undefined THEN config.seats[1]
                      ELSE Len(table.seats)
        rows == Coalesce(config.rows, table.rows)
        seatsPerRow == Coalesce(config.seatsPerRow, table.seatsPerRow)
        existingSeats == table.seats
        newSeats == createSeats(table.type, seatsCount, rows, seatsPerRow, batch)
    IN  [i \in 1..Len(newSeats) |->
            IF i <= Min(Len(existingSeats), Len(newSeats))
            THEN [newSeats[i] EXCEPT !.guestId = existingSeats[i].guestId]
            ELSE newSeats[i]]

ApplySimpleUpdates(table, config) ==
    [table EXCEPT
        !.name = IF config.name # Undefined THEN config.name[1] ELSE @,
        !.x = IF config.x # Undefined THEN config.x[1] ELSE @,
        !.y = IF config.y # Undefined THEN config.y[1] ELSE @,
        !.rotation = IF config.rotation # Undefined THEN config.rotation[1] ELSE @,
        !.width = IF config.width # Undefined THEN config.width[1] ELSE @,
        !.height = IF config.height # Undefined THEN config.height[1] ELSE @,
        !.rows = IF config.rows # Undefined THEN config.rows ELSE @,
        !.seatsPerRow = IF config.seatsPerRow # Undefined THEN config.seatsPerRow
                        ELSE @,
        !.rowConfigs = IF config.rowConfigs # Undefined THEN config.rowConfigs
                       ELSE @]

updateTableConfig(st, tableId, config, batch) ==
    LET found == FindTable(st.tables, tableId)
    IN  IF found = Undefined THEN st
        ELSE
        LET table == found[1]
            simple == ApplySimpleUpdates(table, config)
            updatedTable ==
                IF RecreatesSeats(config)
                THEN [simple EXCEPT !.seats =
                        IF config.rowConfigs # Undefined
                        THEN SeatsFromRowConfigs(table, config, batch)
                        ELSE SeatsFromCounts(table, config, batch)]
                ELSE simple
        IN  [st EXCEPT !.tables = [i \in 1..Len(@) |->
                IF @[i].id = tableId THEN updatedTable ELSE @[i]]]

\* a variant of assignGuestToSeat that sends the occupant of the target seat
\* to unassignedGuests, whoever it is
assignGuestToSeatDisplacing(st, guestId, tableId, seatId) ==
    LET table == FindTable(st.tables, tableId)
        seat == IF table = Undefined THEN Undefined
                ELSE FindSeat(table[1].seats, seatId)
        displacedGuestId == IF seat = Undefined THEN Null ELSE seat[1].guestId
        updatedTables ==
            [i \in 1..Len(st.tables) |->
                [st.tables[i] EXCEPT !.seats =
                    [j \in 1..Len(@) |->
                        IF st.tables[i].id = tableId /\ @[j].id = seatId
                        THEN [@[j] EXCEPT !.guestId = guestId]
                        ELSE IF @[j].guestId = guestId
                        THEN [@[j] EXCEPT !.guestId = Null]
                        ELSE @[j]]]]
        stillUnassigned == SelectSeq(st.unassignedGuests, LAMBDA id : id # guestId)
    IN  [st EXCEPT !.tables = updatedTables,
                   !.unassignedGuests =
                        IF displacedGuestId # Null
                        THEN Append(stillUnassigned, displacedGuestId)
                        ELSE stillUnassigned]

\* a variant of assignGuestToSeat without its first step, the removal of
\* the guest from the seat it holds
assignGuestToSeatKeepingSeat(st, guestId, tableId, seatId) ==
    LET updatedTables ==
            [i \in 1..Len(st.tables) |->
                IF st.tables[i].id = tableId
                THEN [st.tables[i] EXCEPT !.seats =
                        [j \in 1..Len(@) |->
                            IF @[j].id = seatId
                            THEN [@[j] EXCEPT !.guestId = guestId]
                            ELSE @[j]]]
                ELSE st.tables[i]]
    IN  [st EXCEPT !.tables = updatedTables,
                   !.unassignedGuests = SelectSeq(@, LAMBDA id : id # guestId)]

assignGuestToSeat(st, guestId, tableId, seatId) ==
    LET tablesWithGuestRemoved ==
            [i \in 1..Len(st.tables) |->
                [st.tables[i] EXCEPT !.seats =
                    [j \in 1..Len(@) |->
                        IF @[j].guestId = guestId
                        THEN [@[j] EXCEPT !.guestId = Null]
                        ELSE @[j]]]]
        updatedTables ==
            [i \in 1..Len(tablesWithGuestRemoved) |->
                IF tablesWithGuestRemoved[i].id = tableId
                THEN [tablesWithGuestRemoved[i] EXCEPT !.seats =
                        [j \in 1..Len(@) |->
                            IF @[j].id = seatId
                            THEN [@[j] EXCEPT !.guestId = guestId]
                            ELSE @[j]]]
                ELSE tablesWithGuestRemoved[i]]
    IN  [st EXCEPT !.tables = updatedTables,
                   !.unassignedGuests = SelectSeq(@, LAMBDA id : id # guestId)]

\* a variant of unassignGuestFromSeat that empties the seat of the first
\* table holding a seat with that id, whatever tableId is, and appends
\* whatever the seat held
unassignGuestFromSeatAnywhere(st, tableId, seatId) ==
    LET holders == SelectSeq(st.tables,
                             LAMBDA t : FindSeat(t.seats, seatId) # Undefined)
        guestId == IF holders = <<>> THEN Null
                   ELSE FindSeat(holders[1].seats, seatId)[1].guestId
    IN  IF holders = <<>> THEN st
        ELSE [st EXCEPT
                !.tables = [i \in 1..Len(@) |->
                    [@[i] EXCEPT !.seats =
                        [j \in 1..Len(@) |->
                            IF @[j].id = seatId
                            THEN [@[j] EXCEPT !.guestId = Null]
                            ELSE @[j]]]],
                !.unassignedGuests = Append(@, guestId)]

unassignGuestFromSeat(st, tableId, seatId) ==
    LET table == FindTable(st.tables, tableId)
        seat == IF table = Undefined THEN Undefined
                ELSE FindSeat(table[1].seats, seatId)
        guestId == IF seat = Undefined THEN Null ELSE seat[1].guestId
    IN  IF guestId = Null THEN st
        ELSE [st EXCEPT
                !.tables = [i \in 1..Len(@) |->
                    IF @[i].id = tableId
                    THEN [@[i] EXCEPT !.seats =
                            [j \in 1..Len(@) |->
                                IF @[j].id = seatId
                                THEN [@[j] EXCEPT !.guestId = Null]
                                ELSE @[j]]]
                    ELSE @[i]],
                !.unassignedGuests = Append(@, guestId)]

\* displacedGuestId is set in the branch for the destination table, which
\* the map callback reaches only for a table that is not the source table
DisplacedGuestId(st, fromTableId, toTableId, toSeatId) ==
    LET dest == SelectSeq(st.tables,
                          LAMBDA t : t.id # fromTableId /\ t.id = toTableId)
    IN  IF dest = <<>> THEN Null
        ELSE LET targetSeat == FindSeat(dest[Len(dest)].seats, toSeatId)
             IN  IF targetSeat = Undefined THEN Null ELSE targetSeat[1].guestId

moveGuestBetweenSeats(st, guestId, fromTableId, fromSeatId, toTableId, toSeatId) ==
    LET displacedGuestId == DisplacedGuestId(st, fromTableId, toTableId, toSeatId)
        updatedTables ==
            [i \in 1..Len(st.tables) |->
                IF st.tables[i].id = fromTableId
                THEN [st.tables[i] EXCEPT !.seats =
                        [j \in 1..Len(@) |->
                            IF @[j].id = fromSeatId
                            THEN [@[j] EXCEPT !.guestId = Null]
                            ELSE @[j]]]
                ELSE IF st.tables[i].id = toTableId
                THEN [st.tables[i] EXCEPT !.seats =
                        [j \in 1..Len(@) |->
                            IF @[j].id = toSeatId
                            THEN [@[j] EXCEPT !.guestId = guestId]
                            ELSE @[j]]]
                ELSE st.tables[i]]
        newUnassigned ==
            IF displacedGuestId # Null /\ displacedGuestId # guestId
            THEN Append(st.unassignedGuests, displacedGuestId)
            ELSE st.unassignedGuests
    IN  [st EXCEPT !.tables = updatedTables, !.unassignedGuests = newUnassigned]

\* a variant of clearLayout that only deletes the tables
clearLayoutDroppingGuests(st) == [st EXCEPT !.tables = <<>>]

clearLayout(st) ==
    LET allAssignedGuestIds == AssignedGuestIds(FlatMapSeats(st.tables))
    IN  [st EXCEPT !.tables = <<>>, !.unassignedGuests = @ \o allAssignedGuestIds]

resetAll(st) == [tables |-> <<>>, guests |-> <<>>, unassignedGuests |-> <<>>]

(***************************************************************************)
(* Export and import of a snapshot document (App.tsx).  The text of a      *)
(* file is either what JSON.stringify wrote for some value, which          *)
(* JSON.parse reads back, or a text that JSON.parse throws on.             *)
(* JSON.stringify leaves out the keys whose value is undefined.            *)
(***************************************************************************)
OptionalKeys == {"rows", "seatsPerRow", "rowConfigs", "middleName"}

WithoutUndefined(object) ==
    [k \in {key \in DOMAIN object :
                key \notin OptionalKeys \/ object[key] # Undefined} |-> object[k]]

JsonStringify(data) ==
    [json |-> Some(
        [tables |-> [i \in 1..Len(data.tables) |-> WithoutUndefined(data.tables[i])],
         guests |-> [i \in 1..Len(data.guests) |-> WithoutUndefined(data.guests[i])],
         unassignedGuests |-> data.unassignedGuests,
         exportDate |-> data.exportDate])]

\* a text that is not JSON
NotJson == [json |-> Undefined]

\* JSON.parse(text): the value, as an optional that is undefined when
\* JSON.parse throws
JsonParse(text) == text.json

\* the text of the file handleExport offers for download, and its notice
handleExport(st, exportDate) ==
    [download |-> JsonStringify([tables |-> st.tables, guests |-> st.guests,
                                 unassignedGuests |-> st.unassignedGuests,
                                 exportDate |-> exportDate]),
     toast |-> "success: exported"]

\* a variant of handleImport without the try block around JSON.parse
handleImportTrusting(st, notice, files) ==
    IF files = <<>> THEN [st |-> st, toast |-> notice]
    ELSE [st |-> st, toast |-> "success: imported"]

\* files: the files of the input's change event, a sequence of texts;
\* gives the store's state and the notice after reader.onload has run
handleImport(st, notice, files) ==
    IF files = <<>> THEN [st |-> st, toast |-> notice]
    ELSE LET json == files[1]
             parsed == JsonParse(json)
         IN  IF parsed # Undefined
             THEN [st |-> st, toast |-> "success: imported"]
             ELSE [st |-> st, toast |-> "error: import"]

(***************************************************************************)
(* Dragging a guest onto a seat (GuestList.tsx, Seat.tsx, App.tsx).  What  *)
(* a drag carries is the dataTransfer text: a guest item of the list       *)
(* writes type 'guest', an occupied seat writes type 'seat-guest'.         *)
(***************************************************************************)
\* DraggableGuestItem.handleDragStart: the data written
GuestDragData(guestId) == [type |-> "guest", guestId |-> guestId]

\* onDragStart of an occupied seat: the data written
SeatDragData(guestId, tableId, seatId) ==
    [type |-> "seat-guest", guestId |-> guestId,
     sourceTableId |-> tableId, sourceSeatId |-> seatId]

\* the guest prop a table component gives a seat: the guest of guests the
\* seat's guestId names, or null
SeatGuest(st, seat) ==
    LET found == SelectSeq(st.guests, LAMBDA g : g.id = seat.guestId)
    IN  IF seat.guestId = Null \/ found = <<>> THEN Null ELSE Some(found[1])

\* the first seat, table by table, that holds guestId
FirstSeatOf(st, guestId) ==
    LET withGuest == SelectSeq(st.tables, LAMBDA t :
                        \E j \in 1..Len(t.seats) : t.seats[j].guestId = guestId)
    IN  IF withGuest = <<>> THEN Undefined
        ELSE LET table == withGuest[1]
                 seat == SelectSeq(table.seats, LAMBDA x : x.guestId = guestId)[1]
             IN  Some(<<table.id, seat.id>>)

\* handleDropOnSeat: the store after it, the store operations it called,
\* the notices it showed and whether it called setDraggedGuest(null)
handleDropOnSeat(st, guestId, tableId, seatId) ==
    LET guest == SelectSeq(st.guests, LAMBDA g : g.id = guestId)
        isAssigned == guestId \notin Range(st.unassignedGuests)
        from == FirstSeatOf(st, guestId)
    IN  IF guest = <<>>
        THEN [st |-> st, calls |-> <<>>, toasts |-> <<>>, cleared |-> FALSE]
        ELSE IF isAssigned
        THEN IF from # Undefined
             THEN [st |-> moveGuestBetweenSeats(st, guestId, from[1][1], from[1][2],
                                                tableId, seatId),
                   calls |-> <<"moveGuestBetweenSeats">>,
                   toasts |-> <<"success: moved">>, cleared |-> TRUE]
             ELSE [st |-> st, calls |-> <<>>, toasts |-> <<>>, cleared |-> TRUE]
        ELSE [st |-> assignGuestToSeat(st, guestId, tableId, seatId),
              calls |-> <<"assignGuestToSeat">>,
              toasts |-> <<"success: assigned">>, cleared |-> TRUE]

\* a variant of Seat.handleDrop that takes a drop whoever sits there
seatHandleDropOnAnySeat(st, data, tableId, seatId) ==
    IF data.type # "guest"
    THEN [st |-> st, calls |-> <<>>, toasts |-> <<>>, cleared |-> FALSE]
    ELSE handleDropOnSeat(st, data.guestId, tableId, seatId)

\* Seat.handleDrop on the seat seatId of table tableId, with the data the
\* drag carries
seatHandleDrop(st, data, tableId, seatId) ==
    LET seat == FindSeat(FindTable(st.tables, tableId)[1].seats, seatId)[1]
    IN  IF SeatGuest(st, seat) # Null \/ data.type # "guest"
        THEN [st |-> st, calls |-> <<>>, toasts |-> <<>>, cleared |-> FALSE]
        ELSE handleDropOnSeat(st, data.guestId, tableId, seatId)

\* handleGlobalMouseUp and handleGlobalDragEnd, the listeners of window:
\* the store and the drag state after them
handleGlobalDragEnd(st) == [st |-> st, draggedGuest |-> Null]

(***************************************************************************)
(* The state machine.  The variables tables, guests and unassignedGuests   *)
(* are the store's state; uuid counts the ids issued; file is the text of  *)
(* the file last exported, if any, and toast the last notice shown;        *)
(* draggedGuest is the drag state of App and dataTransfer the data of the  *)
(* drag in progress, if any.  An                                           *)
(* action is one call of a store operation or of a handler of the          *)
(* application.  A scope sc fixes the inputs the calls are                 *)
(* made with: how many guests and tables are ever created, the table       *)
(* types, the configurations sent to updateTableConfig and the seat        *)
(* positions addressed.                                                    *)
(***************************************************************************)
State == [tables |-> tables, guests |-> guests, unassignedGuests |-> unassignedGuests]

Init ==
    /\ tables = <<>>
    /\ guests = <<>>
    /\ unassignedGuests = <<>>
    /\ uuid = [guest |-> 0, table |-> 0, seat |-> 0]
    /\ file = Undefined
    /\ toast = "none"
    /\ draggedGuest = Null
    /\ dataTransfer = Undefined
    /\ theaterViews = <<>>

\* a call of a store operation: it shows no notice and writes no file
Becomes(st) ==
    /\ tables' = st.tables
    /\ guests' = st.guests
    /\ unassignedGuests' = st.unassignedGuests
    /\ UNCHANGED <<file, toast, draggedGuest, dataTransfer, theaterViews>>

\* Ids given to an operation: the ids issued so far, of things that exist
\* or were removed since.
GuestArgs == {GuestId(n) : n \in 1..uuid.guest}

TableArgs == {TableId(n) : n \in 1..uuid.table}

\* The seats of a table at the given positions, and SeatId(0, 0), the id of
\* a seat that does not exist.
SeatArgs(tableId, picks) ==
    LET found == FindTable(tables, tableId)
    IN  {SeatId(0, 0)} \cup
        (IF found = Undefined THEN {}
         ELSE {found[1].seats[i].id :
                 i \in {j \in 1..Len(found[1].seats) :
                          found[1].seats[j].position \in picks}})

\* where a guest sits: the (table id, seat id) pairs that hold guestId
SeatsOf(ts, guestId) ==
    UNION {{<<ts[i].id, ts[i].seats[j].id>> :
              j \in {k \in 1..Len(ts[i].seats) : ts[i].seats[k].guestId = guestId}} :
           i \in 1..Len(ts)}

\* whether a state holds a seat whose id comes from the given batch
UsesBatch(st, batch) ==
    \E i \in 1..Len(st.tables) : \E j \in 1..Len(st.tables[i].seats) :
        st.tables[i].seats[j].id[2] = batch

\* The guests the actions create are all called "b a": the lines imported
\* are blank or hold the name "b a", and the form is filled in with first
\* name "a" and last name "b", or with a blank last name.
NameLists ==
    { << <<" ">>, <<"b", " ", "a">> >>,
      << <<"b", " ", "a">>, <<" ", "b", "\t", " ", "a", " ">> >> }

GuestForms ==
    { [firstName |-> <<"a">>, lastName |-> <<"b">>, middleName |-> <<>>],
      [firstName |-> <<"a">>, lastName |-> <<" ">>, middleName |-> <<>>] }

RowConfigs21 == <<[seatCount |-> 2], [seatCount |-> 1]>>

\* what a table component sends on each mouse move of a table drag
DragConfig == [NoConfig EXCEPT !.x = Some(1), !.y = Some(1)]

LayoutScope ==
    [maxGuests |-> MaxGuests, maxTables |-> MaxTables, maxRegens |-> 0,
     types |-> {"round", "rectangle"},
     picks |-> {0, 3},
     configs |-> {DragConfig}]

ConfigScope ==
    [maxGuests |-> MaxGuests, maxTables |-> MaxConfigTables, maxRegens |-> MaxRegens,
     types |-> TableTypes,
     picks |-> {0, 3, 8},
     configs |->
        { [NoConfig EXCEPT !.seats = Some(3)],
          [NoConfig EXCEPT !.seats = Some(9)],
          [NoConfig EXCEPT !.rows = Some(1)],
          [NoConfig EXCEPT !.rows = Some(0)],
          [NoConfig EXCEPT !.seatsPerRow = Some(2)],
          [NoConfig EXCEPT !.rowConfigs = Some(RowConfigs21)],
          [NoConfig EXCEPT !.rowConfigs = Some(RowConfigs21), !.seats = Some(2)] }]

AddGuest(sc) ==
    \E form \in GuestForms :
        LET next == handleAddGuest(State, form.firstName, form.lastName,
                                   form.middleName, GuestId(uuid.guest + 1))
        IN  /\ uuid.guest < sc.maxGuests
            /\ Becomes(next)
            /\ uuid' = IF next # State THEN [uuid EXCEPT !.guest = @ + 1] ELSE uuid

RemoveGuest(sc) ==
    \E g \in GuestArgs :
        /\ Becomes(removeGuest(State, g))
        /\ UNCHANGED uuid

ImportGuests(sc) ==
    \E names \in NameLists :
        LET n == Len(SelectSeq(names, LAMBDA x : ~IsBlank(x)))
        IN  /\ uuid.guest + n <= sc.maxGuests
            /\ Becomes(importGuests(State, names,
                                    [i \in 1..n |-> GuestId(uuid.guest + i)]))
            /\ uuid' = [uuid EXCEPT !.guest = @ + n]

AddTable(sc) ==
    \E type \in sc.types :
        /\ uuid.table < sc.maxTables
        /\ Becomes(addTable(State, type, "A", 0, 0, TableId(uuid.table + 1),
                            uuid.seat + 1))
        /\ uuid' = [uuid EXCEPT !.table = @ + 1, !.seat = @ + 1]

RemoveTable(sc) ==
    \E t \in TableArgs :
        /\ Becomes(removeTable(State, t))
        /\ UNCHANGED uuid

UpdateTablePosition(sc) ==
    \E t \in TableArgs :
        /\ Becomes(updateTablePosition(State, t, 1, 1))
        /\ UNCHANGED uuid

UpdateTableRotation(sc) ==
    \E t \in TableArgs :
        /\ Becomes(updateTableRotation(State, t, 45))
        /\ UNCHANGED uuid

\* a regeneration that draws new seat ids takes the next batch
UpdateTableConfig(sc) ==
    \E t \in TableArgs : \E config \in sc.configs :
        LET next == updateTableConfig(State, t, config, uuid.seat + 1)
            drawn == UsesBatch(next, uuid.seat + 1)
        IN  /\ drawn => uuid.seat - uuid.table < sc.maxRegens
            /\ Becomes(next)
            /\ uuid' = IF drawn THEN [uuid EXCEPT !.seat = @ + 1] ELSE uuid

AssignGuestToSeat(sc) ==
    \E g \in GuestArgs : \E t \in TableArgs : \E s \in SeatArgs(t, sc.picks) :
        /\ Becomes(assignGuestToSeat(State, g, t, s))
        /\ UNCHANGED uuid

UnassignGuestFromSeat(sc) ==
    \E t \in TableArgs : \E s \in SeatArgs(t, sc.picks) :
        /\ Becomes(unassignGuestFromSeat(State, t, s))
        /\ UNCHANGED uuid

\* the caller (handleDropOnSeat) passes the seat it found the guest in
MoveGuestBetweenSeats(sc) ==
    \E g \in GuestArgs : \E from \in SeatsOf(tables, g) :
    \E tt \in TableArgs : \E ts \in SeatArgs(tt, sc.picks) :
        /\ Becomes(moveGuestBetweenSeats(State, g, from[1], from[2], tt, ts))
        /\ UNCHANGED uuid

ClearLayout(sc) ==
    /\ Becomes(clearLayout(State))
    /\ UNCHANGED uuid

ResetAll(sc) ==
    /\ Becomes(resetAll(State))
    /\ UNCHANGED uuid

StoreNext(sc) ==
    \/ AddGuest(sc)
    \/ RemoveGuest(sc)
    \/ ImportGuests(sc)
    \/ AddTable(sc)
    \/ RemoveTable(sc)
    \/ UpdateTablePosition(sc)
    \/ UpdateTableRotation(sc)
    \/ UpdateTableConfig(sc)
    \/ AssignGuestToSeat(sc)
    \/ UnassignGuestFromSeat(sc)
    \/ MoveGuestBetweenSeats(sc)
    \/ ClearLayout(sc)
    \/ ResetAll(sc)

\* The layout scope: two tables, no seat regeneration.
Next == StoreNext(LayoutScope)

Spec == Init /\ [][Next]_vars

\* The configuration scope: one table of any type with guests seated at
\* it, and every kind of configuration update that recreates the seats.
NextConfig ==
    \/ AddGuest(ConfigScope)
    \/ AddTable(ConfigScope)
    \/ UpdateTableConfig(ConfigScope)
    \/ AssignGuestToSeat(ConfigScope)
    \/ UnassignGuestFromSeat(ConfigScope)

SpecConfig == Init /\ [][NextConfig]_vars

\* The snapshot scope: a layout of one table and one guest is built,
\* exported, changed and imported.
SnapshotScope ==
    [maxGuests |-> MaxSnapshotGuests, maxTables |-> MaxSnapshotTables,
     maxRegens |-> 0,
     types |-> {"round", "theater"},
     picks |-> {0, 3},
     configs |-> {DragConfig}]

ExportDates == {"2024-01-01T00:00:00.000Z"}

HandleExport ==
    \E exportDate \in ExportDates :
        LET done == handleExport(State, exportDate)
        IN  /\ file' = Some(done.download)
            /\ toast' = done.toast
            /\ UNCHANGED <<tables, guests, unassignedGuests, uuid>>
            /\ UNCHANGED <<draggedGuest, dataTransfer, theaterViews>>

\* the file chosen: none, the file exported, or a file that is not JSON
HandleImport ==
    \E files \in {<<>>, <<NotJson>>}
                    \cup (IF file = Undefined THEN {} ELSE {<<file[1]>>}) :
        LET done == handleImport(State, toast, files)
        IN  /\ tables' = done.st.tables
            /\ guests' = done.st.guests
            /\ unassignedGuests' = done.st.unassignedGuests
            /\ toast' = done.toast
            /\ UNCHANGED <<file, uuid, draggedGuest, dataTransfer, theaterViews>>

NextSnapshot ==
    \/ AddGuest(SnapshotScope)
    \/ RemoveGuest(SnapshotScope)
    \/ AddTable(SnapshotScope)
    \/ UpdateTableConfig(SnapshotScope)
    \/ AssignGuestToSeat(SnapshotScope)
    \/ ClearLayout(SnapshotScope)
    \/ ResetAll(SnapshotScope)
    \/ HandleExport
    \/ HandleImport

SpecSnapshot == Init /\ [][NextSnapshot]_vars

\* The drag scope: the intents of the presentation alone.  Guests are
\* added through the form and removed from the list, tables are added,
\* and guests are dragged from the list or from a seat and dropped on a
\* seat or released elsewhere; a click on an occupied seat empties it.
DragScope ==
    [maxGuests |-> MaxGuests, maxTables |-> MaxDragTables, maxRegens |-> 0,
     types |-> {"round"},
     picks |-> {0, 3},
     configs |-> {DragConfig}]

ListedGuests == Range(guests)

\* a guest item of the list, unassigned or seated, starts a drag
GuestDragStart ==
    \E guest \in ListedGuests :
        /\ dataTransfer = Undefined
        /\ dataTransfer' = Some(GuestDragData(guest.id))
        /\ draggedGuest' = Some(guest)
        /\ UNCHANGED <<tables, guests, unassignedGuests, uuid, file, toast,
                       theaterViews>>

\* an occupied seat starts a drag: App is not told
SeatDragStart ==
    \E ref \in UNION {SeatsOf(tables, g.id) : g \in ListedGuests} :
        /\ dataTransfer = Undefined
        /\ dataTransfer' = Some(SeatDragData(
                FindSeat(FindTable(tables, ref[1])[1].seats, ref[2])[1].guestId,
                ref[1], ref[2]))
        /\ UNCHANGED <<tables, guests, unassignedGuests, uuid, file, toast,
                       draggedGuest, theaterViews>>

\* the drag is released over a seat
SeatDrop(sc) ==
    \E t \in Range([i \in 1..Len(tables) |-> tables[i].id]) :
    \E s \in SeatArgs(t, sc.picks) \ {SeatId(0, 0)} :
        LET done == seatHandleDrop(State, dataTransfer[1], t, s)
        IN  /\ dataTransfer # Undefined
            /\ tables' = done.st.tables
            /\ guests' = done.st.guests
            /\ unassignedGuests' = done.st.unassignedGuests
            /\ toast' = IF done.toasts = <<>> THEN toast
                        ELSE done.toasts[Len(done.toasts)]
            /\ draggedGuest' = IF done.cleared THEN Null ELSE draggedGuest
            /\ dataTransfer' = Undefined
            /\ UNCHANGED <<uuid, file, theaterViews>>

\* handleGlobalMouseUp and handleGlobalDragEnd: the drag is over
DragEnd ==
    LET done == handleGlobalDragEnd(State)
    IN  /\ tables' = done.st.tables
        /\ guests' = done.st.guests
        /\ unassignedGuests' = done.st.unassignedGuests
        /\ draggedGuest' = done.draggedGuest
        /\ dataTransfer' = Undefined
        /\ UNCHANGED <<uuid, file, toast, theaterViews>>

\* no button is clicked while a drag is in progress
NoDrag == dataTransfer = Undefined

NextDrag ==
    \/ NoDrag /\ AddGuest(DragScope)
    \/ NoDrag /\ RemoveGuest(DragScope)
    \/ NoDrag /\ AddTable(DragScope)
    \/ NoDrag /\ UnassignGuestFromSeat(DragScope)
    \/ GuestDragStart
    \/ SeatDragStart
    \/ SeatDrop(DragScope)
    \/ DragEnd

SpecDrag == Init /\ [][NextDrag]_vars

(***************************************************************************)
(* The theater table component (TheaterTable).  Each mounted component     *)
(* keeps rows and seatsPerRow in state of its own, set from the table when *)
(* it mounts and by the sliders of its own dialog afterwards; its seat     *)
(* positions and container size are computed from that state.  The         *)
(* configuration panel (TableConfigPanel) changes the stored table only.   *)
(* App renders one canvas in the desktop layout and one in the mobile tab, *)
(* so a table can have two mounted components.                             *)
(***************************************************************************)
MaxTheaterTables == 1
MaxTheaterRegens == 2

\* useState(table.rows || 5), useState(table.seatsPerRow || 8)
MountTheaterTable(table, canvas) ==
    [canvas |-> canvas, tableId |-> table.id,
     rows |-> OrElse(table.rows, 5),
     seatsPerRow |-> OrElse(table.seatsPerRow, 8)]

\* the position of seat number index, from the seatsPerRow of the component
TheaterGetSeatPosition(seatsPerRow, index) ==
    LET seatSize == 36
        rowSpacing == 36
        seatSpacing == 24
        headerHeight == 70
        paddingX == 24
        paddingY == 16
        row == index \div seatsPerRow
        col == index % seatsPerRow
    IN  [x |-> paddingX + col * (seatSize + seatSpacing),
         y |-> headerHeight + paddingY + row * (seatSize + rowSpacing)]

\* the sliders of the component's own dialog
theaterHandleRowsChange(st, views, k, value, batch) ==
    [views |-> [views EXCEPT ![k].rows = value],
     st |-> updateTableConfig(st, views[k].tableId,
                              [NoConfig EXCEPT !.rows = Some(value)], batch)]

theaterHandleSeatsPerRowChange(st, views, k, value, batch) ==
    [views |-> [views EXCEPT ![k].seatsPerRow = value],
     st |-> updateTableConfig(st, views[k].tableId,
                              [NoConfig EXCEPT !.seatsPerRow = Some(value)], batch)]

\* the sliders of the configuration panel, for the selected table
panelHandleRowsChange(st, tableId, value, batch) ==
    updateTableConfig(st, tableId, [NoConfig EXCEPT !.rows = Some(value)], batch)

panelHandleSeatsPerRowChange(st, tableId, value, batch) ==
    updateTableConfig(st, tableId, [NoConfig EXCEPT !.seatsPerRow = Some(value)],
                      batch)

TheaterScope ==
    [maxGuests |-> 1, maxTables |-> MaxTheaterTables,
     maxRegens |-> MaxTheaterRegens,
     types |-> {"theater"},
     picks |-> {0},
     configs |-> {},
     dialogRows |-> {1, 2}, dialogSeatsPerRow |-> {2, 3},
     panelRows |-> {2, 3}, panelSeatsPerRow |-> {2, 3}]

\* a theater table is added and the desktop canvas mounts its component
TheaterAddTable(sc) ==
    LET next == addTable(State, "theater", "A", 0, 0, TableId(uuid.table + 1),
                         uuid.seat + 1)
    IN  /\ uuid.table < sc.maxTables
        /\ tables' = next.tables
        /\ guests' = next.guests
        /\ unassignedGuests' = next.unassignedGuests
        /\ theaterViews' = Append(theaterViews,
                MountTheaterTable(next.tables[Len(next.tables)], "desktop"))
        /\ uuid' = [uuid EXCEPT !.table = @ + 1, !.seat = @ + 1]
        /\ UNCHANGED <<file, toast, draggedGuest, dataTransfer>>

\* the canvas tab of the mobile layout is opened: it mounts a component
\* for every table
ShowMobileCanvas ==
    /\ tables # <<>>
    /\ \A k \in 1..Len(theaterViews) : theaterViews[k].canvas # "mobile"
    /\ theaterViews' = theaterViews \o
            [i \in 1..Len(tables) |-> MountTheaterTable(tables[i], "mobile")]
    /\ UNCHANGED <<tables, guests, unassignedGuests, uuid, file, toast,
                   draggedGuest, dataTransfer>>

TheaterChanged(sc, done) ==
    /\ uuid.seat - uuid.table < sc.maxRegens
    /\ tables' = done.st.tables
    /\ guests' = done.st.guests
    /\ unassignedGuests' = done.st.unassignedGuests
    /\ theaterViews' = done.views
    /\ uuid' = [uuid EXCEPT !.seat = @ + 1]
    /\ UNCHANGED <<file, toast, draggedGuest, dataTransfer>>

TheaterHandleRowsChange(sc) ==
    \E k \in 1..Len(theaterViews) : \E value \in sc.dialogRows :
        TheaterChanged(sc, theaterHandleRowsChange(State, theaterViews, k, value,
                                                   uuid.seat + 1))

TheaterHandleSeatsPerRowChange(sc) ==
    \E k \in 1..Len(theaterViews) : \E value \in sc.dialogSeatsPerRow :
        TheaterChanged(sc, theaterHandleSeatsPerRowChange(State, theaterViews, k,
                                                          value, uuid.seat + 1))

PanelHandleRowsChange(sc) ==
    \E t \in TableArgs : \E value \in sc.panelRows :
        TheaterChanged(sc, [views |-> theaterViews,
                            st |-> panelHandleRowsChange(State, t, value,
                                                         uuid.seat + 1)])

PanelHandleSeatsPerRowChange(sc) ==
    \E t \in TableArgs : \E value \in sc.panelSeatsPerRow :
        TheaterChanged(sc, [views |-> theaterViews,
                            st |-> panelHandleSeatsPerRowChange(State, t, value,
                                                                uuid.seat + 1)])

NextTheater ==
    \/ AddGuest(TheaterScope)
    \/ AssignGuestToSeat(TheaterScope)
    \/ TheaterAddTable(TheaterScope)
    \/ ShowMobileCanvas
    \/ TheaterHandleRowsChange(TheaterScope)
    \/ TheaterHandleSeatsPerRowChange(TheaterScope)
    \/ PanelHandleRowsChange(TheaterScope)
    \/ PanelHandleSeatsPerRowChange(TheaterScope)

SpecTheater == Init /\ [][NextTheater]_vars

(***************************************************************************)
(* The geometry of the table components.  Coordinates are rational        *)
(* numbers [n, d] in lowest terms with d > 0, so that the divisions of the *)
(* components are computed exactly.  Math.cos and Math.sin are tabulated  *)
(* in millionths for whole degrees.                                        *)
(***************************************************************************)
RECURSIVE Gcd(_, _)
Gcd(a, b) == IF b = 0 THEN a ELSE Gcd(b, a % b)

Frac(n, d) ==
    LET s == IF d < 0 THEN -1 ELSE 1
        g == Gcd(IF n < 0 THEN -n ELSE n, IF d < 0 THEN -d ELSE d)
    IN  [n |-> (s * n) \div g, d |-> (s * d) \div g]

Whole(n) == [n |-> n, d |-> 1]
Plus(a, b) == Frac(a.n * b.d + b.n * a.d, a.d * b.d)
Minus(a, b) == Frac(a.n * b.d - b.n * a.d, a.d * b.d)
Times(a, b) == Frac(a.n * b.n, a.d * b.d)
AtMost(a, b) == a.n * b.d <= b.n * a.d

\* a variant of Math.floor that rounds up
MathFloorRoundingUp(a) == -((-a.n) \div a.d)

\* Math.floor, Math.ceil and Math.round (halves go up)
MathFloor(a) == a.n \div a.d
MathCeil(a) == -((-a.n) \div a.d)
MathRound(a) == (2 * a.n + a.d) \div (2 * a.d)
Max(a, b) == IF a >= b THEN a ELSE b

\* cos of 0..90 degrees, in millionths
CosTable ==
    << 1000000, 999848, 999391, 998630, 997564, 996195, 994522, 992546,
       990268, 987688, 984808, 981627, 978148, 974370, 970296, 965926,
       961262, 956305, 951057, 945519, 939693, 933580, 927184, 920505,
       913545, 906308, 898794, 891007, 882948, 874620, 866025, 857167,
       848048, 838671, 829038, 819152, 809017, 798636, 788011, 777146,
       766044, 754710, 743145, 731354, 719340, 707107, 694658, 681998,
       669131, 656059, 642788, 629320, 615661, 601815, 587785, 573576,
       559193, 544639, 529919, 515038, 500000, 484810, 469472, 453990,
       438371, 422618, 406737, 390731, 374607, 358368, 342020, 325568,
       309017, 292372, 275637, 258819, 241922, 224951, 207912, 190809,
       173648, 156434, 139173, 121869, 104528, 87156, 69756, 52336,
       34899, 17452, 0 >>

\* an angle is a rational number of degrees; cos and sin are taken of the
\* angles that are whole degrees
IsWholeDegrees(angle) == angle.d = 1

MathCos(angle) ==
    LET deg == angle.n % 360
        c == IF deg <= 90 THEN CosTable[deg + 1]
             ELSE IF deg <= 180 THEN -CosTable[180 - deg + 1]
             ELSE IF deg <= 270 THEN -CosTable[deg - 180 + 1]
             ELSE CosTable[360 - deg + 1]
    IN  Frac(c, 1000000)

MathSin(angle) == MathCos(Minus(angle, Whole(90)))

\* RectangleTable: the seats per edge that the spacing is computed from
RectangleSeatsOnLongSides(tableWidth, tableHeight, total) ==
    LET perimeter == 2 * (tableWidth + tableHeight)
    IN  MathRound(Times(Times(Frac(tableWidth, perimeter), Whole(total)), Whole(2)))

RectangleSeatsTopBottom(tableWidth, tableHeight, total) ==
    Max(1, MathFloor(Frac(RectangleSeatsOnLongSides(tableWidth, tableHeight, total), 2)))

RectangleSeatsLeftRight(tableWidth, tableHeight, total) ==
    LET seatsOnShortSides ==
            total - RectangleSeatsOnLongSides(tableWidth, tableHeight, total)
    IN  Max(1, MathCeil(Frac(seatsOnShortSides, 2)))

\* RectangleTable.getSeatInfo; position is the corner of the seat marker
RectangleGetSeatInfo(tableWidth, tableHeight, index, total) ==
    LET seatSize == 36
        seatOffset == 8
        seatsTopBottom == RectangleSeatsTopBottom(tableWidth, tableHeight, total)
        seatsLeftRight == RectangleSeatsLeftRight(tableWidth, tableHeight, total)
        side == IF index < seatsTopBottom THEN 0
                ELSE IF index < seatsTopBottom + seatsLeftRight THEN 1
                ELSE IF index < seatsTopBottom * 2 + seatsLeftRight THEN 2
                ELSE 3
        sideIndex == CASE side = 0 -> index
                       [] side = 1 -> index - seatsTopBottom
                       [] side = 2 -> index - seatsTopBottom - seatsLeftRight
                       [] side = 3 -> index - seatsTopBottom * 2 - seatsLeftRight
        tableLeft == seatSize + seatOffset
        tableTop == seatSize + seatOffset
        tableRight == tableLeft + tableWidth
        tableBottom == tableTop + tableHeight
        topBottomSpacing == IF seatsTopBottom > 1
                            THEN Frac(tableWidth, seatsTopBottom)
                            ELSE Frac(tableWidth, 2)
        leftRightSpacing == IF seatsLeftRight > 1
                            THEN Frac(tableHeight, seatsLeftRight)
                            ELSE Frac(tableHeight, 2)
        along == Frac(2 * sideIndex + 1, 2)
        half == Frac(seatSize, 2)
        position ==
            CASE side = 0 ->
                    [x |-> Minus(Plus(Whole(tableLeft), Times(topBottomSpacing, along)), half),
                     y |-> Whole(tableTop - seatSize \div 2 - seatOffset \div 2)]
              [] side = 1 ->
                    [x |-> Whole(tableRight + seatOffset \div 2 - seatSize \div 2),
                     y |-> Minus(Plus(Whole(tableTop), Times(leftRightSpacing, along)), half)]
              [] side = 2 ->
                    [x |-> Minus(Minus(Whole(tableRight), Times(topBottomSpacing, along)), half),
                     y |-> Whole(tableBottom + seatOffset \div 2 - seatSize \div 2)]
              [] side = 3 ->
                    [x |-> Whole(tableLeft - seatSize \div 2 - seatOffset \div 2),
                     y |-> Minus(Minus(Whole(tableBottom), Times(leftRightSpacing, along)), half)]
    IN  [position |-> position, side |-> side]

\* SquareTable.getSeatInfo
SquareGetSeatInfo(tableSize, index, total) ==
    LET seatSize == 36
        seatOffset == 8
        seatsPerSide == MathCeil(Frac(total, 4))
        side == MathFloor(Frac(index, seatsPerSide))
        sideIndex == index % seatsPerSide
        spacing == IF seatsPerSide > 1 THEN Frac(tableSize, seatsPerSide + 1)
                   ELSE Frac(tableSize, 2)
        tableLeft == seatSize + seatOffset
        tableTop == seatSize + seatOffset
        tableRight == tableLeft + tableSize
        tableBottom == tableTop + tableSize
        along == Whole(sideIndex + 1)
        half == Frac(seatSize, 2)
        position ==
            CASE side = 0 ->
                    [x |-> Minus(Plus(Whole(tableLeft), Times(spacing, along)), half),
                     y |-> Whole(tableTop - seatSize \div 2 - seatOffset \div 2)]
              [] side = 1 ->
                    [x |-> Whole(tableRight + seatOffset \div 2 - seatSize \div 2),
                     y |-> Minus(Plus(Whole(tableTop), Times(spacing, along)), half)]
              [] side = 2 ->
                    [x |-> Minus(Minus(Whole(tableRight), Times(spacing, along)), half),
                     y |-> Whole(tableBottom + seatOffset \div 2 - seatSize \div 2)]
              [] side = 3 ->
                    [x |-> Whole(tableLeft - seatSize \div 2 - seatOffset \div 2),
                     y |-> Minus(Minus(Whole(tableBottom), Times(spacing, along)), half)]
              [] OTHER -> [x |-> Whole(0), y |-> Whole(0)]
    IN  [position |-> position, side |-> side]

\* a variant of the angle that starts at the right of the table: without
\* the quarter turn  - PI / 2
RoundSeatAngleFromRight(index, total) ==
    Times(Frac(index, total), Whole(360))

\* RoundTable: the angle of a seat in degrees, (index / total) * 2 * PI - PI / 2
RoundSeatAngle(index, total) ==
    Minus(Times(Frac(index, total), Whole(360)), Whole(90))

\* RoundTable: seatRadius = tableRadius + seatSize / 2 + 8
RoundSeatRadius(tableDiameter) ==
    LET seatSize == 36
        tableRadius == Frac(tableDiameter, 2)
    IN  Plus(Plus(tableRadius, Frac(seatSize, 2)), Whole(8))

RoundCenterOffset(tableDiameter) ==
    LET seatSize == 36
        containerSize == tableDiameter + seatSize * 2 + 32
    IN  Frac(containerSize, 2)

\* RoundTable.getSeatPosition; the corner of the seat marker
RoundGetSeatPosition(tableDiameter, index, total) ==
    LET seatSize == 36
        seatRadius == RoundSeatRadius(tableDiameter)
        centerOffset == RoundCenterOffset(tableDiameter)
        angle == RoundSeatAngle(index, total)
    IN  [x |-> Minus(Plus(centerOffset, Times(seatRadius, MathCos(angle))),
                     Frac(seatSize, 2)),
         y |-> Minus(Plus(centerOffset, Times(seatRadius, MathSin(angle))),
                     Frac(seatSize, 2))]

\* AmphitheaterTable: table.rowConfigs || Array(table.rows || 5).fill(null)
\*     .map(() => ({ seatCount: table.seatsPerRow || 8 }))
AmphitheaterRowConfigs(table) ==
    IF table.rowConfigs # Undefined THEN table.rowConfigs[1]
    ELSE [i \in 1..OrElse(table.rows, 5) |->
            [seatCount |-> OrElse(table.seatsPerRow, 8)]]

\* a variant of the loop that compares with <= : a seat on the boundary of
\* two rows stays in the earlier row
RECURSIVE AmphitheaterRowOfInclusive(_, _, _, _)
AmphitheaterRowOfInclusive(rowConfigs, seatIndex, i, cumulativeSeats) ==
    IF i >= Len(rowConfigs) THEN [rowIndex |-> 0, seatInRow |-> seatIndex]
    ELSE IF seatIndex <= cumulativeSeats + rowConfigs[i + 1].seatCount
    THEN [rowIndex |-> i, seatInRow |-> seatIndex - cumulativeSeats]
    ELSE AmphitheaterRowOfInclusive(rowConfigs, seatIndex, i + 1,
                                    cumulativeSeats + rowConfigs[i + 1].seatCount)

\* the loop of getSeatPosition: the row of a seat and its place in the row;
\* a seat past the last row is left in row 0 with seatInRow = seatIndex
RECURSIVE AmphitheaterRowOf(_, _, _, _)
AmphitheaterRowOf(rowConfigs, seatIndex, i, cumulativeSeats) ==
    IF i >= Len(rowConfigs) THEN [rowIndex |-> 0, seatInRow |-> seatIndex]
    ELSE IF seatIndex < cumulativeSeats + rowConfigs[i + 1].seatCount
    THEN [rowIndex |-> i, seatInRow |-> seatIndex - cumulativeSeats]
    ELSE AmphitheaterRowOf(rowConfigs, seatIndex, i + 1,
                           cumulativeSeats + rowConfigs[i + 1].seatCount)

\* angle = -PI / 2 + (seatInRow + 1) * (PI / (seatCount + 1)), in degrees
AmphitheaterSeatAngle(seatCount, seatInRow) ==
    Plus(Whole(-90), Times(Whole(seatInRow + 1), Frac(180, seatCount + 1)))

AmphitheaterCenterX(rowConfigs) ==
    LET seatSize == 32
        arcRadiusStep == 35
        baseRadius == 80
        padding == 20
        lastRowWidth == (baseRadius + (Len(rowConfigs) - 1) * arcRadiusStep) * 2
                            + seatSize
        maxRowWidth == IF rowConfigs = <<>> THEN 200 ELSE Max(lastRowWidth, 200)
        containerWidth == maxRowWidth + padding * 2
    IN  Frac(containerWidth, 2)

\* AmphitheaterTable.getSeatPosition; the corner of the seat marker
AmphitheaterGetSeatPosition(table, seatIndex) ==
    LET rowConfigs == AmphitheaterRowConfigs(table)
        seatSize == 32
        rowSpacing == 20
        arcRadiusStep == 35
        baseRadius == 80
        headerHeight == 50
        padding == 20
        at == AmphitheaterRowOf(rowConfigs, seatIndex, 0, 0)
    IN  IF rowConfigs = <<>> THEN [x |-> Whole(0), y |-> Whole(0)]
        ELSE
        LET radius == baseRadius + at.rowIndex * arcRadiusStep
            angle == AmphitheaterSeatAngle(rowConfigs[at.rowIndex + 1].seatCount,
                                           at.seatInRow)
            centerX == AmphitheaterCenterX(rowConfigs)
            centerY == headerHeight + padding + baseRadius
        IN  [x |-> Minus(Plus(centerX, Times(Whole(radius), MathCos(angle))),
                         Frac(seatSize, 2)),
             y |-> Plus(Minus(Plus(Whole(centerY),
                                   Times(Times(Whole(radius), MathSin(angle)),
                                         Frac(4, 10))),
                              Frac(seatSize, 2)),
                        Whole(at.rowIndex * (seatSize + rowSpacing * 2)))]

\* The geometry scope: one table of each shape, its seat count set by the
\* sliders and its width and height by the fields of the configuration
\* panel.
MaxGeometryTables == 1
MaxGeometryRegens == 1

GeometryScope ==
    [maxGuests |-> 0, maxTables |-> MaxGeometryTables,
     maxRegens |-> MaxGeometryRegens,
     types |-> {"round", "square", "rectangle", "amphitheater"},
     picks |-> {0},
     configs |->
        {[NoConfig EXCEPT !.seats = Some(n)] : n \in 2..24}
        \cup {[NoConfig EXCEPT !.width = Some(w)] : w \in {120, 200}}
        \cup {[NoConfig EXCEPT !.height = Some(h)] : h \in {120, 200}}
        \cup {[NoConfig EXCEPT !.seatsPerRow = Some(n)] : n \in {2, 3}}
        \cup {[NoConfig EXCEPT !.rows = Some(n)] : n \in {2}}]

NextGeometry ==
    \/ AddTable(GeometryScope)
    \/ UpdateTableConfig(GeometryScope)

SpecGeometry == Init /\ [][NextGeometry]_vars

\* The amphitheater scope: one amphitheater table, whose rows are given
\* to updateTableConfig as per-row counts with their total, as the
\* component sends them; a count may be 0.
MaxRowsGiven == 3
MaxRowCount == 3
MaxAmphitheaterTables == 1
MaxAmphitheaterRegens == 1

RowConfigsGiven ==
    UNION {[1..len -> {[seatCount |-> c] : c \in 0..MaxRowCount}] :
            len \in 1..MaxRowsGiven}

AmphitheaterScope ==
    [maxGuests |-> 0, maxTables |-> MaxAmphitheaterTables,
     maxRegens |-> MaxAmphitheaterRegens,
     types |-> {"amphitheater"},
     picks |-> {0},
     configs |->
        {[NoConfig EXCEPT !.rowConfigs = Some(rc),
                          !.seats = Some(SumSeatCount(rc))] : rc \in RowConfigsGiven}
        \cup {[NoConfig EXCEPT !.seatsPerRow = Some(n)] : n \in {2, 3}}
        \cup {[NoConfig EXCEPT !.rows = Some(n)] : n \in {1, 2}}]

NextAmphitheater ==
    \/ AddTable(AmphitheaterScope)
    \/ UpdateTableConfig(AmphitheaterScope)

SpecAmphitheater == Init /\ [][NextAmphitheater]_vars

(***************************************************************************)
(* What the properties speak about.  The arguments of a call range over    *)
(* the ids of the current state, the ids issued earlier and the            *)
(* never-issued id number 0 of each kind.                                  *)
(***************************************************************************)
AnyGuestId == {GuestId(n) : n \in 0..uuid.guest}

AnyTableId == {TableId(n) : n \in 0..uuid.table}

SeatIdsOf(ts) == UNION {{ts[i].seats[j].id : j \in 1..Len(ts[i].seats)} : i \in 1..Len(ts)}

AnySeatId == SeatIdsOf(tables) \cup {SeatId(0, 0)}

GuestIds(st) == {st.guests[i].id : i \in 1..Len(st.guests)}

TableIds(st) == {st.tables[i].id : i \in 1..Len(st.tables)}

TableOf(st, tableId) == FindTable(st.tables, tableId)[1]

\* the (table id, seat id) pairs of the seats that exist
SeatRefs(st) ==
    UNION {{<<st.tables[i].id, st.tables[i].seats[j].id>> :
              j \in 1..Len(st.tables[i].seats)} : i \in 1..Len(st.tables)}

GuestAt(st, ref) == FindSeat(TableOf(st, ref[1]).seats, ref[2])[1].guestId

CountIn(seq, x) == Cardinality({i \in 1..Len(seq) : seq[i] = x})

\* configurations sent to updateTableConfig in the properties
SeatConfigs ==
    {[NoConfig EXCEPT !.seats = Some(n)] : n \in {0, 3, 6, 9}}
    \cup {[NoConfig EXCEPT !.rows = Some(r)] : r \in {0, 1, 2}}
    \cup {[NoConfig EXCEPT !.seatsPerRow = Some(k)] : k \in {0, 2}}
    \cup {[NoConfig EXCEPT !.rows = Some(2), !.seatsPerRow = Some(3)]}
    \cup {[NoConfig EXCEPT !.rowConfigs = Some(rc)] :
            rc \in {<<>>, RowConfigs21, <<[seatCount |-> 0], [seatCount |-> 9]>>}}
    \cup {[NoConfig EXCEPT !.rowConfigs = Some(RowConfigs21), !.seats = Some(n)] :
            n \in {2, 3, 9}}
    \cup {[NoConfig EXCEPT !.rowConfigs = Some(RowConfigs21), !.rows = Some(2),
                           !.seats = Some(3)]}

\* the batch a call made in the current state draws its new seat ids from
NextBatch == uuid.seat + 1

(***************************************************************************)
(* C1.  Every guest of the guest list is either in unassignedGuests        *)
(* exactly once and in no seat, or in exactly one seat and not in          *)
(* unassignedGuests, in every state the store's operations reach.          *)
(***************************************************************************)
GuestPartition(st) ==
    \A g \in GuestIds(st) :
        \/ CountIn(st.unassignedGuests, g) = 1 /\ SeatsOf(st.tables, g) = {}
        \/ CountIn(st.unassignedGuests, g) = 0
           /\ Cardinality(SeatsOf(st.tables, g)) = 1

C1_GuestPartition == GuestPartition(State)

(***************************************************************************)
(* C2.  When updateTableConfig reduces a table's seat count, every guest   *)
(* who sat at an index at or beyond the new length is in unassignedGuests  *)
(* afterwards.                                                             *)
(***************************************************************************)
C2_ShrinkReleasesGuests ==
    \A t \in TableIds(State) : \A config \in SeatConfigs :
        LET old == TableOf(State, t).seats
            st2 == updateTableConfig(State, t, config, NextBatch)
            new == TableOf(st2, t).seats
        IN  Len(new) < Len(old) =>
                \A i \in (Len(new) + 1)..Len(old) :
                    old[i].guestId # Null =>
                        old[i].guestId \in Range(st2.unassignedGuests)

(***************************************************************************)
(* C3.  When updateTableConfig regenerates a table's seats from length m   *)
(* to length n, new seat i holds the guest of old seat i for every index   *)
(* below min(m, n), and every new seat at an index from m on is empty.     *)
(***************************************************************************)
C3_ResizeKeepsGuestsByIndex ==
    \A t \in TableIds(State) : \A config \in SeatConfigs :
        LET old == TableOf(State, t).seats
            new == TableOf(updateTableConfig(State, t, config, NextBatch), t).seats
        IN  /\ \A i \in 1..Min(Len(old), Len(new)) : new[i].guestId = old[i].guestId
            /\ \A i \in (Len(old) + 1)..Len(new) : new[i].guestId = Null

\* a table with a seated guest that a configuration update grows, keeping
\* the guest at its index and adding empty seats
C3_Witness ==
    \E t \in TableIds(State) : \E config \in SeatConfigs :
        LET old == TableOf(State, t).seats
            new == TableOf(updateTableConfig(State, t, config, NextBatch), t).seats
        IN  /\ Len(new) > Len(old)
            /\ \E i \in 1..Len(old) : old[i].guestId # Null /\ new[i].guestId = old[i].guestId

(***************************************************************************)
(* C4.  After every mutation, a table's seats.length is the seat count its *)
(* layout parameters imply: rows * seatsPerRow for a theater, the sum of   *)
(* rowConfigs[*].seatCount for an amphitheater, the requested seat count   *)
(* for a round, square or rectangle table; for every argument of           *)
(* updateTableConfig.                                                      *)
(***************************************************************************)
SeatCountMatchesLayout(table) ==
    CASE table.type = "theater" ->
            Len(table.seats) = table.rows[1] * table.seatsPerRow[1]
      [] table.type = "amphitheater" ->
            Len(table.seats) = SumSeatCount(table.rowConfigs[1])
      [] OTHER -> TRUE

C4_SeatCountMatchesLayout ==
    /\ \A t \in TableIds(State) : SeatCountMatchesLayout(TableOf(State, t))
    /\ \A t \in TableIds(State) : \A config \in SeatConfigs :
        LET new == TableOf(updateTableConfig(State, t, config, NextBatch), t)
        IN  /\ SeatCountMatchesLayout(new)
            /\ new.type \in {"round", "square", "rectangle"}
               /\ config.seats # Undefined
                    => Len(new.seats) = config.seats[1]

(***************************************************************************)
(* C5.  With guest A seated at seat S1 and guest B seated at another seat  *)
(* S2, of the same table or of another one, moveGuestBetweenSeats(A,       *)
(* table(S1), S1, table(S2), S2) leaves A in S2, S1 empty and B in         *)
(* unassignedGuests exactly once.                                          *)
(***************************************************************************)
C5_MoveDisplacesOccupant ==
    \A a \in GuestIds(State) : \A b \in GuestIds(State) \ {a} :
    \A s1 \in SeatsOf(tables, a) : \A s2 \in SeatsOf(tables, b) :
        SeatsOf(tables, a) = {s1} /\ SeatsOf(tables, b) = {s2}
        /\ CountIn(unassignedGuests, b) = 0
        => LET st2 == moveGuestBetweenSeats(State, a, s1[1], s1[2], s2[1], s2[2])
           IN  /\ GuestAt(st2, s2) = a
               /\ GuestAt(st2, s1) = Null
               /\ CountIn(st2.unassignedGuests, b) = 1

(***************************************************************************)
(* C6.  For a guest g in seat fs of table ft and any other existing seat   *)
(* ts of a table tt, which may be ft, after moveGuestBetweenSeats(g, ft,   *)
(* fs, tt, ts) seat ts holds g, seat fs is empty and g is in exactly one   *)
(* seat.                                                                   *)
(***************************************************************************)
C6_MoveReachesDestination ==
    \A g \in GuestIds(State) : \A from \in SeatsOf(tables, g) :
    \A to \in SeatRefs(State) \ {from} :
        SeatsOf(tables, g) = {from}
        => LET st2 == moveGuestBetweenSeats(State, g, from[1], from[2], to[1], to[2])
           IN  /\ GuestAt(st2, to) = g
               /\ GuestAt(st2, from) = Null
               /\ SeatsOf(st2.tables, g) = {to}

(***************************************************************************)
(* C7.  In every state and for every guest id g, table id t and seat id s, *)
(* existing or not, assignGuestToSeat(g, t, s) applied twice in a row      *)
(* gives the tables, guests and unassignedGuests it gives applied once.    *)
(***************************************************************************)
C7_AssignIdempotent ==
    \A g \in AnyGuestId : \A t \in AnyTableId : \A s \in AnySeatId :
        LET once == assignGuestToSeat(State, g, t, s)
        IN  assignGuestToSeat(once, g, t, s) = once

\* a seated guest is assigned to an occupied seat of another guest: the
\* first call changes the state, the second one does not
C7_Witness ==
    \E g \in GuestIds(State) : \E ref \in SeatRefs(State) :
        LET once == assignGuestToSeat(State, g, ref[1], ref[2])
        IN  /\ SeatsOf(tables, g) # {}
            /\ GuestAt(State, ref) \notin {Null, g}
            /\ once # State
            /\ assignGuestToSeat(once, g, ref[1], ref[2]) = once

(***************************************************************************)
(* C8.  After assignGuestToSeat(g, t, s) with a guest g of the guest list  *)
(* and a seat s that table t has, g is in seat s and in no other seat of   *)
(* the layout, and g is not in unassignedGuests.  The call is one          *)
(* transition of the store, so no state between holds g twice or nowhere.  *)
(***************************************************************************)
C8_AssignSeatsGuestOnce ==
    \A g \in GuestIds(State) : \A ref \in SeatRefs(State) :
        LET st2 == assignGuestToSeat(State, g, ref[1], ref[2])
        IN  /\ SeatsOf(st2.tables, g) = {ref}
            /\ g \notin Range(st2.unassignedGuests)

\* a guest seated at one table is assigned to a seat of another table
C8_Witness ==
    \E g \in GuestIds(State) : \E ref \in SeatRefs(State) :
        /\ \E from \in SeatsOf(tables, g) : from[1] # ref[1]
        /\ SeatsOf(assignGuestToSeat(State, g, ref[1], ref[2]).tables, g) = {ref}

(***************************************************************************)
(* C9.  An operation called with a guest id, table id or seat id that the  *)
(* current layout does not hold leaves tables, guests and unassignedGuests *)
(* as they are: assignGuestToSeat and moveGuestBetweenSeats towards a      *)
(* table or seat that does not exist keep the guest where it is, and with  *)
(* a guest id that does not exist they put nothing in a seat.              *)
(***************************************************************************)
NoSuchGuest == AnyGuestId \ GuestIds(State)

NoSuchTable == AnyTableId \ TableIds(State)

NoSuchSeat == (AnyTableId \X AnySeatId) \ SeatRefs(State)

C9_NonexistentIdsAreNoOps ==
    /\ \A g \in NoSuchGuest :
        /\ removeGuest(State, g) = State
        /\ \A to \in SeatRefs(State) :
            /\ assignGuestToSeat(State, g, to[1], to[2]) = State
            /\ \A from \in SeatRefs(State) :
                moveGuestBetweenSeats(State, g, from[1], from[2], to[1], to[2])
                    = State
    /\ \A t \in NoSuchTable :
        /\ removeTable(State, t) = State
        /\ updateTablePosition(State, t, 1, 1) = State
        /\ updateTableRotation(State, t, 45) = State
        /\ \A config \in SeatConfigs :
            updateTableConfig(State, t, config, NextBatch) = State
    /\ \A to \in NoSuchSeat :
        /\ unassignGuestFromSeat(State, to[1], to[2]) = State
        /\ \A g \in GuestIds(State) :
            /\ assignGuestToSeat(State, g, to[1], to[2]) = State
            /\ \A from \in SeatsOf(tables, g) :
                moveGuestBetweenSeats(State, g, from[1], from[2], to[1], to[2])
                    = State

(***************************************************************************)
(* C10.  In every reachable state, a seat's guestId that is not null is    *)
(* the id of a guest in guests, and no guest id is in more than one seat   *)
(* of the layout.                                                          *)
(***************************************************************************)
C10_SeatsReferenceGuests ==
    \A ref \in SeatRefs(State) :
        LET g == GuestAt(State, ref)
        IN  g # Null => g \in GuestIds(State) /\ SeatsOf(tables, g) = {ref}

(***************************************************************************)
(* C11.  After removeGuest(g), g is not in guests, not in unassignedGuests *)
(* and in no seat of any table, and every other guest is in the seats and  *)
(* in the unassigned list exactly as before.                               *)
(***************************************************************************)
C11_RemoveGuestClearsGuest ==
    \A g \in AnyGuestId :
        LET st2 == removeGuest(State, g)
        IN  /\ g \notin GuestIds(st2)
            /\ g \notin Range(st2.unassignedGuests)
            /\ SeatsOf(st2.tables, g) = {}
            /\ st2.guests = SelectSeq(guests, LAMBDA x : x.id # g)
            /\ st2.unassignedGuests = SelectSeq(unassignedGuests, LAMBDA id : id # g)
            /\ SeatRefs(st2) = SeatRefs(State)
            /\ \A ref \in SeatRefs(State) :
                GuestAt(State, ref) # g => GuestAt(st2, ref) = GuestAt(State, ref)

\* a seated guest is removed while another guest stays seated
C11_Witness ==
    \E g \in GuestIds(State) : \E h \in GuestIds(State) \ {g} :
        LET st2 == removeGuest(State, g)
        IN  /\ SeatsOf(tables, g) # {}
            /\ SeatsOf(tables, h) # {}
            /\ SeatsOf(st2.tables, g) = {}
            /\ SeatsOf(st2.tables, h) = SeatsOf(tables, h)

(***************************************************************************)
(* C12.  After removeTable(t) on a table of the layout, t is gone, every   *)
(* guest who was seated at t is in unassignedGuests, and the other tables  *)
(* with their seats and the guests list are as before.                     *)
(***************************************************************************)
C12_RemoveTableReleasesGuests ==
    \A t \in TableIds(State) :
        LET st2 == removeTable(State, t)
            seats == TableOf(State, t).seats
        IN  /\ t \notin TableIds(st2)
            /\ \A i \in 1..Len(seats) :
                seats[i].guestId # Null =>
                    seats[i].guestId \in Range(st2.unassignedGuests)
            /\ st2.tables = SelectSeq(tables, LAMBDA x : x.id # t)
            /\ st2.guests = guests

\* one of two tables, with a guest seated at it, is removed
C12_Witness ==
    \E t \in TableIds(State) :
        LET st2 == removeTable(State, t)
        IN  /\ Len(tables) = 2
            /\ AssignedGuestIds(TableOf(State, t).seats) # <<>>
            /\ Len(st2.tables) = 1
            /\ Len(st2.unassignedGuests) > Len(unassignedGuests)

(***************************************************************************)
(* C13.  unassignGuestFromSeat(t, s) on a seat that holds a guest g        *)
(* empties that seat and appends g to unassignedGuests, and changes        *)
(* nothing else; on an empty seat, or on a table or seat that does not     *)
(* exist, it leaves the state as it is.                                    *)
(***************************************************************************)
C13_UnassignReleasesGuest ==
    \A t \in AnyTableId : \A s \in AnySeatId :
        LET st2 == unassignGuestFromSeat(State, t, s)
            ref == <<t, s>>
        IN  IF ref \in SeatRefs(State) /\ GuestAt(State, ref) # Null
            THEN /\ GuestAt(st2, ref) = Null
                 /\ st2.unassignedGuests
                        = Append(unassignedGuests, GuestAt(State, ref))
                 /\ st2.guests = guests
                 /\ SeatRefs(st2) = SeatRefs(State)
                 /\ \A other \in SeatRefs(State) \ {ref} :
                        GuestAt(st2, other) = GuestAt(State, other)
                 /\ Len(st2.tables) = Len(tables)
                 /\ \A i \in 1..Len(tables) :
                        [st2.tables[i] EXCEPT !.seats = <<>>]
                            = [tables[i] EXCEPT !.seats = <<>>]
            ELSE st2 = State

\* an occupied seat is emptied while another guest stays seated
C13_Witness ==
    \E ref \in SeatRefs(State) : \E other \in SeatRefs(State) \ {ref} :
        LET st2 == unassignGuestFromSeat(State, ref[1], ref[2])
        IN  /\ GuestAt(State, ref) # Null
            /\ GuestAt(State, other) # Null
            /\ GuestAt(st2, ref) = Null
            /\ GuestAt(st2, other) = GuestAt(State, other)
            /\ Len(st2.unassignedGuests) = Len(unassignedGuests) + 1

(***************************************************************************)
(* C14.  After clearLayout, tables is empty, every guest who was seated    *)
(* before the call is in unassignedGuests, the guests who were unassigned  *)
(* before are still there, and the guests list is as before.               *)
(***************************************************************************)
C14_ClearLayoutReleasesGuests ==
    LET st2 == clearLayout(State)
    IN  /\ st2.tables = <<>>
        /\ \A ref \in SeatRefs(State) :
            GuestAt(State, ref) # Null =>
                GuestAt(State, ref) \in Range(st2.unassignedGuests)
        /\ \A i \in 1..Len(unassignedGuests) :
            st2.unassignedGuests[i] = unassignedGuests[i]
        /\ st2.guests = guests

\* a layout with a seated guest and an unassigned guest is cleared
C14_Witness ==
    LET st2 == clearLayout(State)
    IN  /\ \E ref \in SeatRefs(State) : GuestAt(State, ref) # Null
        /\ unassignedGuests # <<>>
        /\ Len(st2.unassignedGuests) > Len(unassignedGuests)
        /\ st2.tables = <<>>

(***************************************************************************)
(* C15.  updateTablePosition changes only x and y, and                     *)
(* updateTableRotation only rotation, of the addressed table: its seats    *)
(* with their ids and guestIds, every other table, guests and              *)
(* unassignedGuests are as before, and a table id that does not exist      *)
(* changes nothing.                                                        *)
(***************************************************************************)
SameButPosition(t1, t2) ==
    [t1 EXCEPT !.x = 0, !.y = 0] = [t2 EXCEPT !.x = 0, !.y = 0]

SameButRotation(t1, t2) == [t1 EXCEPT !.rotation = 0] = [t2 EXCEPT !.rotation = 0]

C15_PositionRotationFrame ==
    \A t \in AnyTableId :
        /\ \A x \in {1, 2} : \A y \in {1, 3} :
            LET st2 == updateTablePosition(State, t, x, y)
            IN  /\ st2.guests = guests
                /\ st2.unassignedGuests = unassignedGuests
                /\ Len(st2.tables) = Len(tables)
                /\ \A i \in 1..Len(tables) :
                    IF tables[i].id = t
                    THEN /\ SameButPosition(st2.tables[i], tables[i])
                         /\ st2.tables[i].x = x /\ st2.tables[i].y = y
                    ELSE st2.tables[i] = tables[i]
        /\ \A rotation \in {45, 90} :
            LET st2 == updateTableRotation(State, t, rotation)
            IN  /\ st2.guests = guests
                /\ st2.unassignedGuests = unassignedGuests
                /\ Len(st2.tables) = Len(tables)
                /\ \A i \in 1..Len(tables) :
                    IF tables[i].id = t
                    THEN /\ SameButRotation(st2.tables[i], tables[i])
                         /\ st2.tables[i].rotation = rotation
                    ELSE st2.tables[i] = tables[i]

\* one of two tables, with a guest seated at it, is moved and turned
C15_Witness ==
    \E t \in TableIds(State) :
        LET moved == updateTablePosition(State, t, 2, 3)
            turned == updateTableRotation(State, t, 90)
        IN  /\ Len(tables) = 2
            /\ AssignedGuestIds(TableOf(State, t).seats) # <<>>
            /\ TableOf(moved, t).x = 2 /\ TableOf(moved, t).seats = TableOf(State, t).seats
            /\ TableOf(turned, t).rotation = 90

(***************************************************************************)
(* C16.  addTable(type, name, x, y) appends one table whose seats all have *)
(* guestId null and whose seat count is the default of the shape: round 8, *)
(* square 8, rectangle 10, theater 40 with rows 5 and seatsPerRow 8,       *)
(* amphitheater 40 with five rowConfigs of 8; guests and unassignedGuests  *)
(* are as before.                                                          *)
(***************************************************************************)
ShapeDefaultSeats(type) ==
    CASE type = "round" -> 8
      [] type = "square" -> 8
      [] type = "rectangle" -> 10
      [] type = "theater" -> 40
      [] type = "amphitheater" -> 40

C16_AddTableDefaults ==
    \A type \in TableTypes : \A x \in {0, 2} :
        LET st2 == addTable(State, type, "B", x, 3, TableId(uuid.table + 1), NextBatch)
            new == st2.tables[Len(st2.tables)]
        IN  /\ Len(st2.tables) = Len(tables) + 1
            /\ \A i \in 1..Len(tables) : st2.tables[i] = tables[i]
            /\ new.type = type /\ new.name = "B" /\ new.x = x /\ new.y = 3
            /\ Len(new.seats) = ShapeDefaultSeats(type)
            /\ \A j \in 1..Len(new.seats) : new.seats[j].guestId = Null
            /\ type \in {"theater", "amphitheater"}
                => new.rows = Some(5) /\ new.seatsPerRow = Some(8)
            /\ type = "amphitheater"
                => new.rowConfigs = Some([r \in 1..5 |-> [seatCount |-> 8]])
            /\ st2.guests = guests
            /\ st2.unassignedGuests = unassignedGuests

\* a table is added to a layout that holds a table with a seated guest
C16_Witness ==
    /\ Len(tables) = 1
    /\ AssignedGuestIds(tables[1].seats) # <<>>
    /\ LET st2 == addTable(State, "rectangle", "B", 2, 3, TableId(uuid.table + 1),
                           NextBatch)
       IN  Len(st2.tables) = 2 /\ Len(st2.tables[2].seats) = 10

(***************************************************************************)
(* C17.  An add-guest request whose first name or last name is empty or    *)
(* only whitespace is rejected before any mutation: guests and             *)
(* unassignedGuests are as before.  A request with both names non-empty    *)
(* creates exactly one guest and appends its id once to unassignedGuests.  *)
(***************************************************************************)
FormStrings == {<<>>, <<" ">>, <<"\t", " ">>, <<"a">>, <<" ", "b", " ">>}

IsWhitespaceOnly(s) == \A i \in 1..Len(s) : s[i] \in Whitespace

C17_AddGuestValidated ==
    \A first \in FormStrings : \A last \in FormStrings : \A middle \in FormStrings :
        LET id == GuestId(uuid.guest + 1)
            st2 == handleAddGuest(State, first, last, middle, id)
        IN  IF IsWhitespaceOnly(first) \/ IsWhitespaceOnly(last)
            THEN st2 = State
            ELSE /\ Len(st2.guests) = Len(guests) + 1
                 /\ SubSeq(st2.guests, 1, Len(guests)) = guests
                 /\ st2.guests[Len(st2.guests)].id = id
                 /\ st2.unassignedGuests = Append(unassignedGuests, id)
                 /\ st2.tables = tables

\* with a guest in the list already, a request without a last name is
\* rejected and a request with both names is accepted
C17_Witness ==
    LET id == GuestId(uuid.guest + 1)
    IN  /\ guests # <<>>
        /\ handleAddGuest(State, <<"a">>, <<" ">>, <<>>, id) = State
        /\ Len(handleAddGuest(State, <<"a">>, <<" ", "b", " ">>, <<>>, id).guests)
                = Len(guests) + 1

(***************************************************************************)
(* C18.  importGuests(names) creates, in the order of the input, one guest *)
(* for every entry that is not blank and none for a blank one, and appends *)
(* each new id once to unassignedGuests.  An entry of one token gives the  *)
(* first name and an empty last name, one of two tokens the last and the   *)
(* first name, one of three or more the last name, the first name and, as  *)
(* middle name, the other tokens joined by one space.  The guests, tables  *)
(* and seats there were are as before.                                     *)
(***************************************************************************)
BlankLines == {<<>>, <<" ">>, <<"\t", " ">>}

\* the entries imported, each with the names it is expected to give
NamedLines ==
    { [line |-> <<"a">>,
       firstName |-> <<"a">>, lastName |-> <<>>, middleName |-> Undefined],
      [line |-> <<" ", "b", "\t", " ", "a", " ">>,
       firstName |-> <<"a">>, lastName |-> <<"b">>, middleName |-> Undefined],
      [line |-> <<"b", " ", "a", " ", "c">>,
       firstName |-> <<"a">>, lastName |-> <<"b">>, middleName |-> Some(<<"c">>)],
      [line |-> <<"b", " ", "a", " ", " ", "c", "\t", "d", " ">>,
       firstName |-> <<"a">>, lastName |-> <<"b">>,
       middleName |-> Some(<<"c", " ", "d">>)] }

\* lists of up to three entries; a blank entry carries no expected names
ImportLists ==
    LET entries == NamedLines \cup {[line |-> b] : b \in BlankLines}
    IN  {<<>>} \cup {<<e>> : e \in entries}
        \cup {<<e1, e2>> : e1 \in entries, e2 \in entries}
        \cup {<<e1, [line |-> <<" ">>], e2>> : e1 \in NamedLines, e2 \in NamedLines}

C18_ImportGuestsParses ==
    \A list \in ImportLists :
        LET names == [i \in 1..Len(list) |-> list[i].line]
            expected == SelectSeq(list, LAMBDA e : e \in NamedLines)
            ids == [i \in 1..Len(list) |-> GuestId(uuid.guest + i)]
            st2 == importGuests(State, names, ids)
            n == Len(guests)
        IN  /\ Len(st2.guests) = n + Len(expected)
            /\ SubSeq(st2.guests, 1, n) = guests
            /\ \A i \in 1..Len(expected) :
                /\ st2.guests[n + i].id = ids[i]
                /\ st2.guests[n + i].firstName = expected[i].firstName
                /\ st2.guests[n + i].lastName = expected[i].lastName
                /\ st2.guests[n + i].middleName = expected[i].middleName
            /\ st2.unassignedGuests
                    = unassignedGuests \o SubSeq(ids, 1, Len(expected))
            /\ st2.tables = tables

\* with a guest seated, a list with a blank entry between two names is
\* imported and gives two guests
C18_Witness ==
    /\ \E ref \in SeatRefs(State) : GuestAt(State, ref) # Null
    /\ LET st2 == importGuests(State,
                               << <<"b", " ", "a", " ", "c">>, <<" ">>, <<"a">> >>,
                               <<GuestId(uuid.guest + 1), GuestId(uuid.guest + 2)>>)
       IN  /\ Len(st2.guests) = Len(guests) + 2
           /\ st2.guests[Len(guests) + 1].middleName = Some(<<"c">>)
           /\ st2.guests[Len(guests) + 2].lastName = <<>>

(***************************************************************************)
(* C19.  The layout obtained by importing a snapshot document that was     *)
(* exported from layout L has the tables, the guests, the seat assignments *)
(* and the unassigned set of L.                                            *)
(***************************************************************************)
C19_ExportImportRoundTrip ==
    file # Undefined =>
        LET snapshot == JsonParse(file[1])[1]
            done == handleImport(State, toast, <<file[1]>>)
        IN  done.toast = "success: imported" =>
                /\ [i \in 1..Len(done.st.tables) |->
                        WithoutUndefined(done.st.tables[i])] = snapshot.tables
                /\ [i \in 1..Len(done.st.guests) |->
                        WithoutUndefined(done.st.guests[i])] = snapshot.guests
                /\ Range(done.st.unassignedGuests) = Range(snapshot.unassignedGuests)

(***************************************************************************)
(* C20.  Importing a document that fails to parse leaves tables, guests    *)
(* and unassignedGuests exactly as they were and ends with the error       *)
(* notice, never with the success notice.                                  *)
(***************************************************************************)
C20_MalformedImportRejected ==
    LET done == handleImport(State, toast, <<NotJson>>)
    IN  /\ done.st = State
        /\ done.toast = "error: import"
        /\ done.toast # "success: imported"

\* a layout with a seated guest, exported before, and a file that is not
\* JSON
C20_Witness ==
    /\ \E ref \in SeatRefs(State) : GuestAt(State, ref) # Null
    /\ file # Undefined
    /\ JsonParse(NotJson) = Undefined
    /\ handleImport(State, toast, <<NotJson>>).toast = "error: import"
    /\ handleImport(State, toast, <<file[1]>>).toast = "success: imported"

(***************************************************************************)
(* C21.  A drag that starts on a guest and ends without a drop that a seat *)
(* accepts, released outside every seat or over an occupied seat, leaves   *)
(* tables, guests and unassignedGuests as they are and leaves draggedGuest *)
(* null.                                                                   *)
(***************************************************************************)
OccupiedSeats == {ref \in SeatRefs(State) : GuestAt(State, ref) # Null}

C21_DragWithoutDropChangesNothing ==
    dataTransfer # Undefined =>
        \* released outside every seat: only the listeners of window run
        /\ handleGlobalDragEnd(State).st = State
        /\ handleGlobalDragEnd(State).draggedGuest = Null
        \* released over an occupied seat, then the listeners of window
        /\ \A ref \in OccupiedSeats :
            LET dropped == seatHandleDrop(State, dataTransfer[1], ref[1], ref[2])
                ended == handleGlobalDragEnd(dropped.st)
            IN  /\ dropped.calls = <<>>
                /\ ended.st = State
                /\ ended.draggedGuest = Null

\* a guest of the list is being dragged while another guest sits at a seat
C21_Witness ==
    /\ dataTransfer # Undefined
    /\ draggedGuest # Null
    /\ \E ref \in OccupiedSeats :
        /\ GuestAt(State, ref) # draggedGuest[1].id
        /\ seatHandleDrop(State, dataTransfer[1], ref[1], ref[2]).st = State

(***************************************************************************)
(* C22.  In every reachable state, a drop that a seat accepts and passes   *)
(* to handleDropOnSeat calls exactly one store operation,                  *)
(* assignGuestToSeat or moveGuestBetweenSeats, never none and never two,   *)
(* and draggedGuest is null afterwards.                                    *)
(***************************************************************************)
\* the seats that accept a drop: those shown without a guest
AcceptingSeats ==
    {ref \in SeatRefs(State) :
        SeatGuest(State, FindSeat(TableOf(State, ref[1]).seats, ref[2])[1]) = Null}

C22_DropCallsOneMutation ==
    dataTransfer # Undefined /\ dataTransfer[1].type = "guest" =>
        \A ref \in AcceptingSeats :
            LET done == handleDropOnSeat(State, dataTransfer[1].guestId,
                                         ref[1], ref[2])
            IN  /\ Len(done.calls) = 1
                /\ done.calls[1] \in {"assignGuestToSeat", "moveGuestBetweenSeats"}
                /\ done.cleared

(* C23. The rows and seatsPerRow from which a mounted theater table        *)
(* component computes its seat positions are those stored in the table,    *)
(* also after the configuration panel changed them, so every seat has the  *)
(* position the stored parameters give and two components of one table     *)
(* use the same parameters.                                                *)
C23_TheaterUsesStoredRows ==
    \A k \in 1..Len(theaterViews) :
        LET view == theaterViews[k]
            table == TableOf(State, view.tableId)
        IN  /\ table.rows = Some(view.rows)
            /\ table.seatsPerRow = Some(view.seatsPerRow)
            /\ \A index \in 0..(Len(table.seats) - 1) :
                TheaterGetSeatPosition(view.seatsPerRow, index)
                    = TheaterGetSeatPosition(table.seatsPerRow[1], index)
            /\ \A j \in 1..Len(theaterViews) :
                theaterViews[j].tableId = view.tableId =>
                    /\ theaterViews[j].rows = view.rows
                    /\ theaterViews[j].seatsPerRow = view.seatsPerRow

RectangleTables ==
    {i \in 1..Len(tables) :
        tables[i].type = "rectangle" /\ Len(tables[i].seats) \in 2..24}

\* the seats that getSeatInfo puts on a side
SeatsOnSide(i, side) ==
    {index \in 0..(Len(tables[i].seats) - 1) :
        RectangleGetSeatInfo(tables[i].width, tables[i].height, index,
                             Len(tables[i].seats)).side = side}

\* the centre of a seat marker of 36 by 36
MarkerCentre(position) ==
    [x |-> Plus(position.x, Whole(18)), y |-> Plus(position.y, Whole(18))]

(* C24. For a rectangle table of any width and height and 2 to 24 seats,   *)
(* the number of seats put on an edge is at most the per-edge count the    *)
(* spacing is computed from (seatsTopBottom for top and bottom,            *)
(* seatsLeftRight for left and right), and no seat marker is centred       *)
(* beyond the corners of its edge.                                         *)
C24_RectangleEdgeCounts ==
    \A i \in RectangleTables :
        LET tableWidth == tables[i].width
            tableHeight == tables[i].height
            total == Len(tables[i].seats)
        IN  /\ \A side \in 0..3 :
                Cardinality(SeatsOnSide(i, side))
                    <= IF side \in {0, 2}
                       THEN RectangleSeatsTopBottom(tableWidth, tableHeight, total)
                       ELSE RectangleSeatsLeftRight(tableWidth, tableHeight, total)
            /\ \A index \in 0..(total - 1) :
                LET info == RectangleGetSeatInfo(tableWidth, tableHeight, index, total)
                    centre == MarkerCentre(info.position)
                IN  IF info.side \in {0, 2}
                    THEN /\ AtMost(Whole(44), centre.x)
                         /\ AtMost(centre.x, Whole(44 + tableWidth))
                    ELSE /\ AtMost(Whole(44), centre.y)
                         /\ AtMost(centre.y, Whole(44 + tableHeight))

EdgeTables ==
    {i \in 1..Len(tables) :
        tables[i].type \in {"square", "rectangle"} /\ Len(tables[i].seats) \in 2..24}

EdgeSeatInfo(i, index) ==
    IF tables[i].type = "square"
    THEN SquareGetSeatInfo(tables[i].width, index, Len(tables[i].seats))
    ELSE RectangleGetSeatInfo(tables[i].width, tables[i].height, index,
                              Len(tables[i].seats))

(* C25. When an edge of a square or rectangle table holds exactly one      *)
(* seat, the centre of the seat marker is at the midpoint of the edge      *)
(* (and the spacing is computed without a division by zero).               *)
C25_SingleSeatAtMidpoint ==
    \A i \in EdgeTables : \A side \in 0..3 :
        LET onSide == {index \in 0..(Len(tables[i].seats) - 1) :
                            EdgeSeatInfo(i, index).side = side}
            w == tables[i].width
            h == IF tables[i].type = "square" THEN tables[i].width
                 ELSE tables[i].height
            \* the midpoint of the edge; the corner of the table face is at
            \* (44, 44)
            midpoint == IF side \in {0, 2} THEN Plus(Whole(44), Frac(w, 2))
                        ELSE Plus(Whole(44), Frac(h, 2))
        IN  Cardinality(onSide) = 1 =>
                \A index \in onSide :
                    LET centre == MarkerCentre(EdgeSeatInfo(i, index).position)
                    IN  IF side \in {0, 2} THEN centre.x = midpoint
                        ELSE centre.y = midpoint

RoundTables ==
    {i \in 1..Len(tables) : tables[i].type = "round" /\ Len(tables[i].seats) > 0}

\* the centre of the marker of seat number index of round table i, relative
\* to the centre of the table
RoundOffset(i, index) ==
    LET centre == MarkerCentre(RoundGetSeatPosition(tables[i].width, index,
                                                    Len(tables[i].seats)))
        centerOffset == RoundCenterOffset(tables[i].width)
    IN  [x |-> Minus(centre.x, centerOffset), y |-> Minus(centre.y, centerOffset)]

AmphitheaterTables == {i \in 1..Len(tables) : tables[i].type = "amphitheater"}

\* the index of the first seat of row number rowIndex
RowStart(rowConfigs, rowIndex) == SumSeatCount(SubSeq(rowConfigs, 1, rowIndex))

\* the centre of the marker (32 by 32) of a seat of an amphitheater table
AmphitheaterCentre(i, seatIndex) ==
    LET position == AmphitheaterGetSeatPosition(tables[i], seatIndex)
    IN  [x |-> Plus(position.x, Whole(16)), y |-> Plus(position.y, Whole(16))]

(* C27. In a row of n seats of an amphitheater table the angles of the     *)
(* seats are evenly spaced and the row is centred on the vertical axis of  *)
(* the table: seat k and seat n - 1 - k are mirror images about centerX    *)
(* (same height, opposite horizontal offsets).                             *)
C27_AmphitheaterRowSymmetric ==
    \A i \in AmphitheaterTables :
        LET rowConfigs == AmphitheaterRowConfigs(tables[i])
            centerX == AmphitheaterCenterX(rowConfigs)
        IN  \A rowIndex \in 0..(Len(rowConfigs) - 1) :
            LET n == rowConfigs[rowIndex + 1].seatCount
                start == RowStart(rowConfigs, rowIndex)
            IN  \A k \in 0..(n - 1) :
                /\ k + 1 < n =>
                    Minus(AmphitheaterSeatAngle(n, k + 1), AmphitheaterSeatAngle(n, k))
                        = Frac(180, n + 1)
                /\ (IsWholeDegrees(AmphitheaterSeatAngle(n, k))
                        /\ start + n <= Len(tables[i].seats)) =>
                    LET seat == AmphitheaterCentre(i, start + k)
                        mirror == AmphitheaterCentre(i, start + n - 1 - k)
                    IN  /\ Minus(seat.x, centerX) = Minus(centerX, mirror.x)
                        /\ seat.y = mirror.y

(* C28. assignGuestToSeat(g, t, s) on a seat s occupied by another guest h *)
(* does not lose h: afterwards h is in unassignedGuests exactly once and g *)
(* occupies s.                                                             *)
C28_AssignKeepsDisplacedGuest ==
    \A g \in GuestIds(State) : \A ref \in SeatRefs(State) :
        LET h == GuestAt(State, ref)
            st2 == assignGuestToSeat(State, g, ref[1], ref[2])
        IN  (h # Null /\ h # g) =>
                /\ CountIn(st2.unassignedGuests, h) = 1
                /\ GuestAt(st2, ref) = g

(* C29. In every state reached through the intents of the presentation     *)
(* alone, dragging a listed guest g, unassigned or seated, onto an empty   *)
(* seat s ends with g in seat s and in no other seat, also when g is       *)
(* seated at another seat of the same table.                               *)
C29_DropSeatsGuestAtTarget ==
    \A guest \in ListedGuests : \A ref \in AcceptingSeats :
        LET dropped == seatHandleDrop(State, GuestDragData(guest.id), ref[1], ref[2])
        IN  SeatsOf(dropped.st.tables, guest.id) = {ref}

\* configurations that give only name, x, y, rotation, width or height
SimpleConfigs ==
    { [NoConfig EXCEPT !.name = Some("B")],
      [NoConfig EXCEPT !.x = Some(5)],
      [NoConfig EXCEPT !.y = Some(5)],
      [NoConfig EXCEPT !.rotation = Some(90)],
      [NoConfig EXCEPT !.width = Some(300)],
      [NoConfig EXCEPT !.height = Some(300)],
      [NoConfig EXCEPT !.name = Some("B"), !.x = Some(5), !.y = Some(5),
                       !.rotation = Some(90), !.width = Some(300),
                       !.height = Some(300)],
      DragConfig }

(* C30. updateTableConfig with a configuration that gives only name, x, y, *)
(* rotation, width or height leaves the seats of the table (ids,           *)
(* positions, guestIds), guests, unassignedGuests and every other table    *)
(* as they are; the table components call it so on each mouse move of a    *)
(* table drag.                                                             *)
C30_SimpleConfigKeepsSeats ==
    \A t \in TableIds(State) : \A config \in SimpleConfigs :
        LET st2 == updateTableConfig(State, t, config, NextBatch)
        IN  /\ st2.guests = guests
            /\ st2.unassignedGuests = unassignedGuests
            /\ Len(st2.tables) = Len(tables)
            /\ \A i \in 1..Len(tables) :
                IF tables[i].id = t
                THEN /\ st2.tables[i].seats = tables[i].seats
                     /\ st2.tables[i].id = t
                     /\ st2.tables[i].type = tables[i].type
                ELSE st2.tables[i] = tables[i]

\* a table with a seated guest has been dragged, beside another table
C30_Witness ==
    /\ Len(tables) = 2
    /\ \E i \in 1..Len(tables) :
        /\ tables[i].x = 1
        /\ \E j \in 1..Len(tables[i].seats) : tables[i].seats[j].guestId # Null
        /\ updateTableConfig(State, tables[i].id, DragConfig, NextBatch) = State

(* C31. For an amphitheater with per-row counts c[0..R-1], every seat      *)
(* index i < sum(c) is resolved to a row r and a place p in the row with   *)
(* 0 <= p < c[r] and i = c[0] + ... + c[r-1] + p; rows of count 0 are      *)
(* skipped, and distinct seat indexes resolve to distinct (r, p).          *)
C31_SeatIndexResolvesToRow ==
    \A i \in AmphitheaterTables :
        LET c == AmphitheaterRowConfigs(tables[i])
            indexes == 0..(SumSeatCount(c) - 1)
        IN  /\ \A seatIndex \in indexes :
                LET at == AmphitheaterRowOf(c, seatIndex, 0, 0)
                IN  /\ at.rowIndex \in 0..(Len(c) - 1)
                    /\ 0 <= at.seatInRow
                    /\ at.seatInRow < c[at.rowIndex + 1].seatCount
                    /\ seatIndex = RowStart(c, at.rowIndex) + at.seatInRow
            /\ \A a, b \in indexes :
                a # b => AmphitheaterRowOf(c, a, 0, 0) # AmphitheaterRowOf(c, b, 0, 0)

\* the rows given hold a row of count 0 before a row with seats
C31_Witness ==
    \E i \in AmphitheaterTables :
        LET c == AmphitheaterRowConfigs(tables[i])
        IN  /\ tables[i].rowConfigs # Undefined
            /\ \E r \in 1..(Len(c) - 1) :
                /\ c[r].seatCount = 0
                /\ c[r + 1].seatCount > 0
                /\ AmphitheaterRowOf(c, RowStart(c, r), 0, 0).rowIndex = r

\* seat number index + 1 follows seat number index clockwise on their edge:
\* rightwards on top, downwards on the right, leftwards on the bottom,
\* upwards on the left
FollowsClockwise(i, index) ==
    LET here == EdgeSeatInfo(i, index)
        next == EdgeSeatInfo(i, index + 1)
        before(a, b) == AtMost(a, b) /\ a # b
    IN  CASE here.side = 0 -> before(here.position.x, next.position.x)
          [] here.side = 1 -> before(here.position.y, next.position.y)
          [] here.side = 2 -> before(next.position.x, here.position.x)
          [] here.side = 3 -> before(next.position.y, here.position.y)

(* C32. For square and rectangle tables every seat index is given an edge  *)
(* in 0..3 (0 top, 1 right, 2 bottom, 3 left) and the edge number never    *)
(* decreases as the index grows: the seats walk the perimeter clockwise    *)
(* from the top-left corner, each edge in clockwise direction.             *)
C32_EdgesInClockwiseOrder ==
    \A i \in EdgeTables :
        LET total == Len(tables[i].seats)
        IN  /\ \A index \in 0..(total - 1) : EdgeSeatInfo(i, index).side \in 0..3
            /\ EdgeSeatInfo(i, 0).side = 0
            /\ \A index \in 0..(total - 2) :
                /\ EdgeSeatInfo(i, index).side <= EdgeSeatInfo(i, index + 1).side
                /\ EdgeSeatInfo(i, index).side = EdgeSeatInfo(i, index + 1).side
                        => FollowsClockwise(i, index)

\* a square or rectangle table, resized from its default seat count, with
\* seats on all four edges and two seats on the top edge
C32_Witness ==
    \E i \in EdgeTables :
        /\ Len(tables[i].seats) # 8 /\ Len(tables[i].seats) # 10
        /\ {EdgeSeatInfo(i, index).side : index \in 0..(Len(tables[i].seats) - 1)}
                = 0..3
        /\ EdgeSeatInfo(i, 0).side = EdgeSeatInfo(i, 1).side
        /\ FollowsClockwise(i, 0)

(* C33. When updateTableConfig regenerates the seats of a table, every     *)
(* seat at an index below min(old length, new length) keeps the id it had, *)
(* on the rowConfigs path and on the seats / rows / seatsPerRow path: a    *)
(* seat id obtained before a resize addresses the same index afterwards.   *)
C33_ResizeKeepsSeatIds ==
    \A t \in TableIds(State) : \A config \in SeatConfigs :
        LET old == TableOf(State, t).seats
            new == TableOf(updateTableConfig(State, t, config, NextBatch), t).seats
        IN  \A i \in 1..Min(Len(old), Len(new)) : new[i].id = old[i].id

(* C34. In every reachable state and for every table, the seat at index i  *)
(* of the seats list has position i (the positions are 0..seats.length-1   *)
(* in order), after the creation of the table and after every              *)
(* updateTableConfig.                                                      *)
C34_PositionsAreIndexes ==
    /\ \A i \in 1..Len(tables) : \A j \in 1..Len(tables[i].seats) :
        tables[i].seats[j].position = j - 1
    /\ \A t \in TableIds(State) : \A config \in SeatConfigs :
        LET new == TableOf(updateTableConfig(State, t, config, NextBatch), t).seats
        IN  \A j \in 1..Len(new) : new[j].position = j - 1

\* a table whose seats were regenerated by updateTableConfig, and one that
\* a rowConfigs update grows beyond its seats
C34_Witness ==
    /\ \E i \in 1..Len(tables) :
        /\ Len(tables[i].seats) >= 2
        /\ tables[i].seats[1].id[2] > i
    /\ \E t \in TableIds(State) : \E config \in SeatConfigs :
        /\ config.rowConfigs # Undefined
        /\ Len(TableOf(updateTableConfig(State, t, config, NextBatch), t).seats)
                > Len(TableOf(State, t).seats)

(* C35. In every reachable state every id in unassignedGuests is the id of *)
(* a guest of the guest list, and unassignedGuests holds no id twice,      *)
(* after any sequence of store operations, removeTable, clearLayout,       *)
(* unassignGuestFromSeat and moveGuestBetweenSeats among them.             *)
C35_UnassignedAreGuestsOnce ==
    \A k \in 1..Len(unassignedGuests) :
        /\ unassignedGuests[k] \in GuestIds(State)
        /\ CountIn(unassignedGuests, unassignedGuests[k]) = 1

(* C36. For every guest created by addGuest or importGuests, fullName is   *)
(* the non-empty components among lastName, firstName and middleName, in   *)
(* that order, joined by single spaces, with no leading or trailing space, *)
(* also when lastName is empty.                                            *)
C36_FullNameJoinsComponents ==
    LET \* the non-empty ones of lastName, firstName and middleName, in
        \* that order, joined by single spaces
        ComponentsJoined(guest) ==
            JoinBySpace(SelectSeq(
                <<guest.lastName, guest.firstName,
                  IF guest.middleName = Undefined THEN EmptyString
                  ELSE guest.middleName[1]>>,
                LAMBDA part : part # EmptyString))
    IN
    /\ \A first \in FormStrings : \A last \in FormStrings :
       \A middle \in {Undefined} \cup {Some(s) : s \in FormStrings} :
            LET st2 == addGuest(State, first, last, middle, GuestId(uuid.guest + 1))
                guest == st2.guests[Len(st2.guests)]
            IN  guest.fullName = ComponentsJoined(guest)
    /\ \A list \in ImportLists :
            LET names == [i \in 1..Len(list) |-> list[i].line]
                ids == [i \in 1..Len(list) |-> GuestId(uuid.guest + i)]
                st2 == importGuests(State, names, ids)
            IN  \A i \in (Len(guests) + 1)..Len(st2.guests) :
                    st2.guests[i].fullName = ComponentsJoined(st2.guests[i])

====
